---- MODULE Spec2Model ----
(***************************************************************************)
(* A model of the inflation-austria backend: configuration resolution      *)
(* (inflation_report/config.py), the fetch / reshape / compare pipeline     *)
(* (inflation_report/data.py, inflation_report/analysis.py) and the cached  *)
(* dataset computation behind the HTTP API (backend/app.py).                *)
(*                                                                          *)
(* Python values are tagged records: [t |-> "none"], [t |-> "str", s],      *)
(* [t |-> "int", n], [t |-> "list", items], [t |-> "ts", y, m, d] (a        *)
(* pandas Timestamp at day granularity), [t |-> "nat"] (pandas NaT) and     *)
(* [t |-> "raise", exc] for a call that ends in an exception.  Text is a    *)
(* TLA+ string and is scanned character by character with SubSeq.           *)
(***************************************************************************)
EXTENDS Integers, Sequences, FiniteSets, TLC

(***************************************************************************)
(* Python values                                                            *)
(***************************************************************************)
PyNone == [t |-> "none"]
NaT == [t |-> "nat"]
PyStr(s) == [t |-> "str", s |-> s]
PyInt(n) == [t |-> "int", n |-> n]
PyList(items) == [t |-> "list", items |-> items]
Timestamp(y, m, d) == [t |-> "ts", y |-> y, m |-> m, d |-> d]
Raise(exc) == [t |-> "raise", exc |-> exc]

IsRaise(v) == v.t = "raise"
IsTs(v) == v.t = "ts"

\* bool(v) of Python for the values an override field can hold
Truthy(v) ==
    CASE v.t = "none" -> FALSE
      [] v.t = "str" -> v.s /= ""
      [] v.t = "list" -> v.items /= <<>>
      [] OTHER -> TRUE

(***************************************************************************)
(* Text helpers                                                             *)
(***************************************************************************)
CharAt(s, i) == SubSeq(s, i, i)

Contains(s, c) == \E i \in 1..Len(s) : CharAt(s, i) = c

IsDigit(c) == c \in {"0", "1", "2", "3", "4", "5", "6", "7", "8", "9"}

AllDigits(s) == Len(s) > 0 /\ \A i \in 1..Len(s) : IsDigit(CharAt(s, i))

DigitVal(c) == CHOOSE i \in 0..9 : ToString(i) = c

RECURSIVE ParseNat(_)
ParseNat(s) ==
    IF Len(s) = 0 THEN 0
    ELSE 10 * ParseNat(SubSeq(s, 1, Len(s) - 1)) + DigitVal(CharAt(s, Len(s)))

\* format(n, "0{w}d")
RECURSIVE ZeroPad(_, _)
ZeroPad(n, w) ==
    IF w = 0 THEN ""
    ELSE ZeroPad(n \div 10, w - 1) \o ToString(n % 10)

(***************************************************************************)
(* Calendar                                                                 *)
(***************************************************************************)
IsLeap(y) == (y % 4 = 0 /\ y % 100 /= 0) \/ y % 400 = 0

DaysInMonth(y, m) ==
    IF m = 2 THEN (IF IsLeap(y) THEN 29 ELSE 28)
    ELSE IF m \in {4, 6, 9, 11} THEN 30 ELSE 31

\* pandas Timestamp range (years fully inside 1677-09-21 .. 2262-04-11)
MinYear == 1678
MaxYear == 2261

ValidDate(y, m, d) ==
    /\ y \in MinYear..MaxYear
    /\ m \in 1..12
    /\ d \in 1..DaysInMonth(y, m)

\* order key of a Timestamp
Ordinal(ts) == ts.y * 10000 + ts.m * 100 + ts.d

\* Timestamp > Timestamp
DateGE_strict(a, b) == IsTs(a) /\ IsTs(b) /\ Ordinal(a) > Ordinal(b)

\* Timestamp >= Timestamp; a comparison with NaT is False
DateGE(a, b) == IsTs(a) /\ IsTs(b) /\ Ordinal(a) >= Ordinal(b)

\* the comparison the other way round
DateLE_reversed(a, b) == IsTs(a) /\ IsTs(b) /\ Ordinal(a) >= Ordinal(b)

\* Timestamp <= Timestamp
DateLE(a, b) == IsTs(a) /\ IsTs(b) /\ Ordinal(a) <= Ordinal(b)

NatStrings == {"", "NaT", "nat", "NAT", "nan", "NaN", "NAN"}

\* the ISO texts "YYYY-MM-DD" and "YYYY-MM"
ParseIso(s) ==
    IF /\ Len(s) \in {7, 10}
       /\ AllDigits(SubSeq(s, 1, 4))
       /\ CharAt(s, 5) = "-"
       /\ AllDigits(SubSeq(s, 6, 7))
       /\ Len(s) = 10 => (CharAt(s, 8) = "-" /\ AllDigits(SubSeq(s, 9, 10)))
    THEN LET y == ParseNat(SubSeq(s, 1, 4))
             m == ParseNat(SubSeq(s, 6, 7))
             d == IF Len(s) = 10 THEN ParseNat(SubSeq(s, 9, 10)) ELSE 1
         IN IF ValidDate(y, m, d) THEN Timestamp(y, m, d)
            ELSE Raise("ValueError")
    ELSE Raise("ValueError")

\* pd.to_datetime(arg) for a scalar: None stays None, a Timestamp stays as it
\* is, an empty or NaT-like text gives NaT, an ISO text is parsed and any
\* other text raises
to_datetime(v) ==
    CASE v.t = "none" -> PyNone
      [] v.t = "ts" -> v
      [] v.t = "nat" -> NaT
      [] v.t = "str" -> IF v.s \in NatStrings THEN NaT ELSE ParseIso(v.s)
      [] OTHER -> Raise("TypeError")

\* str(ts.date()): AttributeError on None, "NaT" on NaT
date_str(v) ==
    CASE v.t = "ts" -> PyStr(ZeroPad(v.y, 4) \o "-" \o ZeroPad(v.m, 2) \o "-" \o ZeroPad(v.d, 2))
      [] v.t = "nat" -> PyStr("NaT")
      [] OTHER -> Raise("AttributeError")

\* int(v)
py_int(v) ==
    CASE v.t = "int" -> v
      [] v.t = "str" -> IF AllDigits(v.s) THEN PyInt(ParseNat(v.s)) ELSE Raise("ValueError")
      [] OTHER -> Raise("TypeError")

(***************************************************************************)
(* inflation_report/config.py                                               *)
(***************************************************************************)
ConfigKeys ==
    {"countries", "analysis_start_date", "historical_start_date",
     "forecast_months", "forecast_training_window", "forecast_display_limit"}

\* a list of texts
Strs(seq) == [i \in DOMAIN seq |-> PyStr(seq[i])]

DEFAULT_CONFIG ==
    [countries |-> PyList(Strs(<<"AT", "DE", "EA20">>)),
     analysis_start_date |-> PyStr("2020-01-01"),
     historical_start_date |-> PyStr("2002-01-01"),
     forecast_months |-> PyInt(12),
     forecast_training_window |-> PyInt(24),
     forecast_display_limit |-> PyStr("2026-03-31")]

\* dict.get(key, default)
Get(data, key, default) == IF key \in DOMAIN data THEN data[key] ELSE default

\* every value is wrapped in a list, a list too
_ensure_list_wrap(value) == <<value>>

\* a list is returned as it is, any other value is wrapped in a list
_ensure_list(value) ==
    IF value.t = "list" THEN value.items ELSE <<value>>

ReportConfig(countries, analysis, historical, months, window, limit) ==
    [t |-> "config",
     countries |-> countries,
     analysis_start_date |-> analysis,
     historical_start_date |-> historical,
     forecast_months |-> months,
     forecast_training_window |-> window,
     forecast_display_limit |-> limit]

from_mapping(data) ==
    LET countries == _ensure_list(Get(data, "countries", PyList(<<>>)))
        analysis == to_datetime(Get(data, "analysis_start_date", PyNone))
        historical == to_datetime(Get(data, "historical_start_date", PyNone))
        months == py_int(Get(data, "forecast_months", PyInt(12)))
        window == py_int(Get(data, "forecast_training_window", PyInt(24)))
        limit == to_datetime(Get(data, "forecast_display_limit", PyNone))
    IN CASE IsRaise(analysis) -> analysis
         [] IsRaise(historical) -> historical
         [] IsRaise(months) -> months
         [] IsRaise(window) -> window
         [] IsRaise(limit) -> limit
         [] OTHER -> ReportConfig(countries, analysis, historical, months.n, window.n, limit)

\* the fields of a ReportConfig as a raw mapping (dataclasses.asdict)
asdict(cfg) ==
    [countries |-> PyList(cfg.countries),
     analysis_start_date |-> cfg.analysis_start_date,
     historical_start_date |-> cfg.historical_start_date,
     forecast_months |-> PyInt(cfg.forecast_months),
     forecast_training_window |-> PyInt(cfg.forecast_training_window),
     forecast_display_limit |-> cfg.forecast_display_limit]

\* a file on disk: absent, unreadable as YAML, or a parsed mapping (an empty
\* file parses to None, which "or {}" turns into the empty mapping)
Absent == [t |-> "absent"]
Broken == [t |-> "broken"]
Yaml(data) == [t |-> "yaml", data |-> data]

DEFAULT_CONFIG_PATH == "config.yaml"

load_config(path, fs) ==
    LET cfg_path == IF Truthy(path) THEN path.s ELSE DEFAULT_CONFIG_PATH
        file == IF cfg_path \in DOMAIN fs THEN fs[cfg_path] ELSE Absent
    IN CASE file.t = "yaml" -> from_mapping(file.data)
         [] file.t = "broken" -> Raise("YAMLError")
         [] OTHER -> from_mapping(DEFAULT_CONFIG)

ensure_config(config) ==
    IF config.t = "config" THEN config ELSE from_mapping(config.data)

(***************************************************************************)
(* Tables.  A DataFrame is [columns |-> sequence of column names,           *)
(* rows |-> sequence of rows], a row being a function from column names to  *)
(* cells.  Identifier cells are texts (TLA+ strings); the cells of period   *)
(* columns are PyInt (a rate in hundredths of a percent), PyStr or NaN.     *)
(***************************************************************************)
NaN == [t |-> "nan"]
PyBool(b) == [t |-> "bool", b |-> b]
DataFrame(columns, rows) == [t |-> "df", columns |-> columns, rows |-> rows]

Range(seq) == {seq[i] : i \in DOMAIN seq}

\* DataFrame.empty: no row or no column
Empty(df) == df.rows = <<>> \/ df.columns = <<>>

RECURSIVE Flatten(_)
Flatten(ss) == IF ss = <<>> THEN <<>> ELSE Head(ss) \o Flatten(Tail(ss))

\* insert row r into the date-sorted sequence s behind every row that is not
\* later (a stable sort)
RECURSIVE InsertByDate(_, _)
InsertByDate(s, r) ==
    IF s = <<>> THEN <<r>>
    ELSE IF Ordinal(s[Len(s)].date) <= Ordinal(r.date) THEN Append(s, r)
    ELSE Append(InsertByDate(SubSeq(s, 1, Len(s) - 1), r), s[Len(s)])

\* the rows are left in the order they came in
SortByDate_none(s) == s

RECURSIVE SortByDate(_)
SortByDate(s) ==
    IF s = <<>> THEN <<>>
    ELSE InsertByDate(SortByDate(SubSeq(s, 1, Len(s) - 1)), s[Len(s)])

\* pd.to_numeric(cell, errors="coerce")
to_numeric(cell) ==
    CASE cell.t = "int" -> cell
      [] cell.t = "str" -> IF AllDigits(cell.s) THEN PyInt(ParseNat(cell.s)) ELSE NaN
      [] OTHER -> NaN

\* pd.to_datetime(period, format="%Y-%m", errors="coerce")
ParsePeriod(s) ==
    IF /\ Len(s) \in {6, 7}
       /\ AllDigits(SubSeq(s, 1, 4))
       /\ CharAt(s, 5) = "-"
       /\ AllDigits(SubSeq(s, 6, Len(s)))
    THEN LET y == ParseNat(SubSeq(s, 1, 4))
             m == ParseNat(SubSeq(s, 6, Len(s)))
         IN IF ValidDate(y, m, 1) THEN Timestamp(y, m, 1) ELSE NaT
    ELSE NaT

\* the period columns of a wide table
TimeColumns(df) == SelectSeq(df.columns, LAMBDA col : Contains(col, "-"))

\* df.melt(id_vars=[...], value_vars=time_columns): one row per period
\* column and input row, period column by period column
Melt(df, id_vars, time_columns, value_name) ==
    Flatten([i \in 1..Len(time_columns) |->
               [j \in 1..Len(df.rows) |->
                  [c \in id_vars \cup {"period", value_name} |->
                     IF c = "period" THEN time_columns[i]
                     ELSE IF c = value_name THEN df.rows[j][time_columns[i]]
                     ELSE df.rows[j][c]]]])

\* df.rename(columns={old: new})
Rename(df, old, new) ==
    LET name(c) == IF c = old THEN new ELSE c
        columns == [i \in DOMAIN df.columns |-> name(df.columns[i])]
    IN DataFrame(columns,
                 [j \in DOMAIN df.rows |->
                    [c \in Range(columns) |->
                       df.rows[j][IF c = new /\ old \in Range(df.columns) THEN old ELSE c]]])

(***************************************************************************)
(* inflation_report/constants.py                                            *)
(***************************************************************************)
COICOP_CATEGORIES == {"CP00", "FOOD", "NRG", "IGD", "SERV"}

COUNTRY_NAMES ==
    [EA19 |-> "Eurozone", EA20 |-> "Eurozone", EA |-> "Eurozone",
     AT |-> "Österreich", BE |-> "Belgien", BG |-> "Bulgarien",
     HR |-> "Kroatien", CY |-> "Zypern", CZ |-> "Tschechien",
     DK |-> "Dänemark", EE |-> "Estland", FI |-> "Finnland",
     FR |-> "Frankreich", DE |-> "Deutschland", EL |-> "Griechenland",
     GR |-> "Griechenland", HU |-> "Ungarn", IE |-> "Irland",
     IT |-> "Italien", LT |-> "Litauen", LU |-> "Luxemburg",
     LV |-> "Lettland", MT |-> "Malta", NL |-> "Niederlande",
     PL |-> "Polen", PT |-> "Portugal", RO |-> "Rumänien",
     SE |-> "Schweden", SI |-> "Slowenien", SK |-> "Slowakei",
     ES |-> "Spanien"]

CATEGORY_NAMES ==
    [CP00 |-> "Gesamtinflation",
     FOOD |-> "Nahrungsmittel, Alkohol & Tabak",
     NRG |-> "Energie",
     IGD |-> "Industriegüter (ohne Energie)",
     SERV |-> "Dienstleistungen"]

(***************************************************************************)
(* inflation_report/data.py                                                 *)
(***************************************************************************)
\* number of months of the synthetic sample that the model builds (the
\* source builds the 34 months 2023-01 .. 2025-10)
SampleMonths == 2

\* the draw of rng.normal(0, 0.35, size=3) for period k and region j under
\* the fixed seed 42, in hundredths: a fixed table of offsets
SampleNoise(k, j) == ((17 * k + 29 * j) % 71) - 35

SampleBase(y) ==
    IF y = 2023 THEN <<680, 610, 610>>
    ELSE IF y = 2024 THEN <<420, 380, 380>>
    ELSE <<280, 230, 250>>

SampleGeo == <<"AT", "DE", "EA20">>

_get_sample_data ==
    LET year(k) == 2023 + ((k - 1) \div 12)
        month(k) == ((k - 1) % 12) + 1
        periods == [k \in 1..SampleMonths |-> ZeroPad(year(k), 4) \o "-" \o ZeroPad(month(k), 2)]
        columns == <<"geo">> \o periods \o <<"coicop">>
    IN DataFrame(columns,
                 [j \in 1..3 |->
                    [c \in Range(columns) |->
                       IF c = "geo" THEN SampleGeo[j]
                       ELSE IF c = "coicop" THEN "CP00"
                       ELSE LET k == CHOOSE i \in 1..SampleMonths : periods[i] = c
                            IN PyInt(SampleBase(year(k))[j] + SampleNoise(k, j))]])

\* what the eurostat library does for one request: it is not installed, the
\* request fails, or a wide table comes back
NoLib == [t |-> "nolib"]
FetchError == [t |-> "error"]

\* the geo codes of the configured countries
CountryCodes(config) ==
    {config.countries[i].s : i \in {k \in DOMAIN config.countries : config.countries[k].t = "str"}}

fetch_inflation_data(config, remote) ==
    LET cfg == ensure_config(config)
        countries == CountryCodes(cfg) \cup {"EA19"}
        df == IF "geo\\TIME_PERIOD" \in Range(remote.columns)
              THEN Rename(remote, "geo\\TIME_PERIOD", "geo") ELSE remote
        df_filtered ==
            DataFrame(df.columns,
                      SelectSeq(df.rows, LAMBDA r : r["coicop"] \in COICOP_CATEGORIES
                                                    /\ r["geo"] \in countries))
        geos == {df_filtered.rows[j]["geo"] : j \in DOMAIN df_filtered.rows}
    IN CASE IsRaise(cfg) -> cfg
         [] remote.t = "nolib" -> _get_sample_data
         [] remote.t = "error" -> _get_sample_data
         [] "coicop" \notin Range(df.columns) -> Raise("KeyError")
         [] "geo" \notin Range(df.columns) -> Raise("KeyError")
         [] "EA20" \in geos /\ "EA19" \in geos ->
                DataFrame(df.columns, SelectSeq(df_filtered.rows, LAMBDA r : r["geo"] /= "EA19"))
         [] OTHER -> df_filtered

\* the optional pycountry library: names for codes outside COUNTRY_NAMES
pycountry == [CH |-> "Switzerland", US |-> "United States"]

_country_label(code) ==
    CASE code = "" -> code
      [] code = "FR" -> "Frankreich"
      [] code \in DOMAIN COUNTRY_NAMES -> COUNTRY_NAMES[code]
      [] code \in DOMAIN pycountry -> pycountry[code]
      [] OTHER -> code

process_inflation_data(df, config) ==
    LET cfg == ensure_config(config)
        time_columns == TimeColumns(df)
        melted == Melt(df, {"geo", "coicop"}, time_columns, "inflation_rate")
        parsed == [i \in DOMAIN melted |->
                     [geo |-> melted[i]["geo"],
                      coicop |-> melted[i]["coicop"],
                      date |-> ParsePeriod(melted[i]["period"]),
                      inflation_rate |-> to_numeric(melted[i]["inflation_rate"])]]
        kept == SelectSeq(parsed, LAMBDA r : r.inflation_rate.t = "int" /\ r.date.t = "ts")
        df_long == SelectSeq(kept, LAMBDA r : DateGE(r.date, cfg.historical_start_date))
        rows == [i \in DOMAIN df_long |->
                   [date |-> df_long[i].date,
                    year |-> df_long[i].date.y,
                    geo |-> df_long[i].geo,
                    country |-> _country_label(df_long[i].geo),
                    coicop |-> df_long[i].coicop,
                    category |-> IF df_long[i].coicop \in DOMAIN CATEGORY_NAMES
                                 THEN PyStr(CATEGORY_NAMES[df_long[i].coicop]) ELSE NaN,
                    inflation_rate |-> df_long[i].inflation_rate.n]]
    IN CASE IsRaise(cfg) -> cfg
         [] ~({"geo", "coicop"} \subseteq Range(df.columns)) -> Raise("KeyError")
         [] cfg.historical_start_date.t = "none" -> Raise("TypeError")
         [] OTHER ->
                DataFrame(<<"date", "year", "geo", "country", "coicop", "category", "inflation_rate">>,
                          SortByDate(rows))

\* the columns every interest-rate table has
InterestColumns == <<"date", "rate_type", "interest_rate", "source">>

EmptyInterest == DataFrame(InterestColumns, <<>>)

RATE_TYPES == [MRR_RT |-> "main_refinancing", DFR |-> "deposit_facility"]

Y2K == Timestamp(2000, 1, 1)

fetch_ecb_interest_rates(remote) ==
    LET df == IF "geo\\TIME_PERIOD" \in Range(remote.columns)
              THEN Rename(remote, "geo\\TIME_PERIOD", "geo") ELSE remote
        selected ==
            DataFrame(df.columns,
                      SelectSeq(df.rows, LAMBDA r : r["int_rt"] \in {"MRR_RT", "DFR"}
                                                    /\ r["geo"] \in {"EA", "EA19", "EA20"}))
        melted == Melt(selected, {"geo", "int_rt"}, TimeColumns(selected), "interest_rate")
        parsed == [i \in DOMAIN melted |->
                     [int_rt |-> melted[i]["int_rt"],
                      date |-> ParsePeriod(melted[i]["period"]),
                      interest_rate |-> to_numeric(melted[i]["interest_rate"])]]
        kept == SelectSeq(parsed, LAMBDA r : r.interest_rate.t = "int" /\ r.date.t = "ts")
        df_long == SortByDate(SelectSeq(kept, LAMBDA r : DateGE(r.date, Y2K)))
    IN CASE remote.t = "nolib" -> EmptyInterest
         [] remote.t = "error" -> EmptyInterest
         [] ~({"geo", "int_rt"} \subseteq Range(df.columns)) -> Raise("KeyError")
         [] df_long = <<>> -> EmptyInterest
         [] OTHER ->
                DataFrame(InterestColumns,
                          [i \in DOMAIN df_long |->
                             [date |-> df_long[i].date,
                              rate_type |-> RATE_TYPES[df_long[i].int_rt],
                              interest_rate |-> df_long[i].interest_rate,
                              source |-> "ECB"]])

RECURSIVE SumRates(_)
SumRates(rows) ==
    IF rows = <<>> THEN 0 ELSE Head(rows).interest_rate.n + SumRates(Tail(rows))

\* months since year 0 of a Timestamp, and back to the first of that month
MonthIndex(ts) == ts.y * 12 + (ts.m - 1)
MonthStart(k) == Timestamp(k \div 12, (k % 12) + 1, 1)

\* df.set_index("date").resample("MS").mean(): one row per calendar month
\* from the first to the last observed month, the mean of the month's
\* values (fixed point, rounded down), NaN for a month without a value
ResampleMonthlyMean(rows) ==
    IF rows = <<>> THEN <<>>
    ELSE LET months == {MonthIndex(rows[i].date) : i \in DOMAIN rows}
             first_month == CHOOSE k \in months : \A o \in months : k <= o
             last_month == CHOOSE k \in months : \A o \in months : k >= o
         IN [i \in 1..(last_month - first_month + 1) |->
               LET in_month == SelectSeq(rows, LAMBDA r : MonthIndex(r.date) = first_month + i - 1)
               IN [date |-> MonthStart(first_month + i - 1),
                   interest_rate |-> IF in_month = <<>> THEN NaN
                                     ELSE PyInt(SumRates(in_month) \div Len(in_month))]]

\* the daily series FRED returns: rows [DATE |-> Timestamp, DFF |-> cell]
fetch_fed_interest_rates(remote) ==
    LET parsed == [i \in DOMAIN remote.rows |->
                     [date |-> to_datetime(remote.rows[i]["DATE"]),
                      interest_rate |-> to_numeric(remote.rows[i]["DFF"])]]
        kept == SelectSeq(parsed, LAMBDA r : r.interest_rate.t = "int" /\ r.date.t = "ts")
        monthly == ResampleMonthlyMean(SelectSeq(kept, LAMBDA r : DateGE(r.date, Y2K)))
    IN CASE remote.t = "nolib" -> EmptyInterest
         [] remote.t = "error" -> EmptyInterest
         [] Empty(remote) -> EmptyInterest
         [] OTHER ->
                DataFrame(InterestColumns,
                          [i \in DOMAIN monthly |->
                             [date |-> monthly[i].date,
                              rate_type |-> "fed_funds_effective",
                              interest_rate |-> monthly[i].interest_rate,
                              source |-> "FED"]])

fetch_interest_rates(ecb_remote, fed_remote) ==
    LET ecb == fetch_ecb_interest_rates(ecb_remote)
        fed == fetch_fed_interest_rates(fed_remote)
        frames == (IF Empty(ecb) THEN <<>> ELSE <<ecb>>) \o (IF Empty(fed) THEN <<>> ELSE <<fed>>)
    IN CASE IsRaise(ecb) -> ecb
         [] IsRaise(fed) -> fed
         [] frames = <<>> -> EmptyInterest
         [] OTHER ->
                DataFrame(InterestColumns,
                          SortByDate(Flatten([i \in DOMAIN frames |-> frames[i].rows])))

(***************************************************************************)
(* inflation_report/analysis.py                                             *)
(***************************************************************************)
\* the Timestamps of a set in ascending order
RECURSIVE SortedDates(_)
SortedDates(S) ==
    IF S = {} THEN <<>>
    ELSE LET d == CHOOSE a \in S : \A b \in S : Ordinal(a) <= Ordinal(b)
         IN <<d>> \o SortedDates(S \ {d})

\* the members of a set in a fixed order
RECURSIVE SetToSeq(_)
SetToSeq(S) ==
    IF S = {} THEN <<>>
    ELSE LET e == CHOOSE a \in S : TRUE IN <<e>> \o SetToSeq(S \ {e})

PRIMARY == "Österreich"
REFERENCE == "Eurozone"
DIFF_COLUMN == "Difference (AT - EA)"
FLAG_COLUMN == "Higher in Austria"

\* the flag is set for a difference that is zero, too
compare_regions_or_equal(df) ==
    LET df_overall == SelectSeq(df.rows, LAMBDA r : r.coicop = "CP00")
        duplicates == \E i, j \in DOMAIN df_overall :
                         /\ i /= j
                         /\ df_overall[i].date = df_overall[j].date
                         /\ df_overall[i].country = df_overall[j].country
        countries == {df_overall[i].country : i \in DOMAIN df_overall}
        dates == SortedDates({df_overall[i].date : i \in DOMAIN df_overall})
        value(d, c) ==
            IF \E i \in DOMAIN df_overall : df_overall[i].date = d /\ df_overall[i].country = c
            THEN PyInt(df_overall[CHOOSE i \in DOMAIN df_overall :
                                    df_overall[i].date = d /\ df_overall[i].country = c].inflation_rate)
            ELSE NaN
        difference(d) ==
            IF value(d, PRIMARY).t = "int" /\ value(d, REFERENCE).t = "int"
            THEN PyInt(value(d, PRIMARY).n - value(d, REFERENCE).n) ELSE NaN
        both == PRIMARY \in countries /\ REFERENCE \in countries
        columns == countries \cup (IF both THEN {DIFF_COLUMN, FLAG_COLUMN} ELSE {})
    IN IF duplicates THEN Raise("ValueError")
       ELSE [t |-> "pivot",
             index |-> dates,
             columns |-> SetToSeq(columns),
             rows |-> [k \in DOMAIN dates |->
                         [c \in columns |->
                            CASE c = DIFF_COLUMN -> difference(dates[k])
                              [] c = FLAG_COLUMN ->
                                    PyBool(difference(dates[k]).t = "int" /\ difference(dates[k]).n >= 0)
                              [] OTHER -> value(dates[k], c)]]]

\* df.pivot(index, columns, values) raises ValueError when an (index,
\* column) pair occurs twice; the result has the index as its "date" cells
compare_regions(df) ==
    LET df_overall == SelectSeq(df.rows, LAMBDA r : r.coicop = "CP00")
        duplicates == \E i, j \in DOMAIN df_overall :
                         /\ i /= j
                         /\ df_overall[i].date = df_overall[j].date
                         /\ df_overall[i].country = df_overall[j].country
        countries == {df_overall[i].country : i \in DOMAIN df_overall}
        dates == SortedDates({df_overall[i].date : i \in DOMAIN df_overall})
        value(d, c) ==
            IF \E i \in DOMAIN df_overall : df_overall[i].date = d /\ df_overall[i].country = c
            THEN PyInt(df_overall[CHOOSE i \in DOMAIN df_overall :
                                    df_overall[i].date = d /\ df_overall[i].country = c].inflation_rate)
            ELSE NaN
        difference(d) ==
            IF value(d, PRIMARY).t = "int" /\ value(d, REFERENCE).t = "int"
            THEN PyInt(value(d, PRIMARY).n - value(d, REFERENCE).n) ELSE NaN
        both == PRIMARY \in countries /\ REFERENCE \in countries
        columns == countries \cup (IF both THEN {DIFF_COLUMN, FLAG_COLUMN} ELSE {})
    IN IF duplicates THEN Raise("ValueError")
       ELSE [t |-> "pivot",
             index |-> dates,
             columns |-> SetToSeq(columns),
             rows |-> [k \in DOMAIN dates |->
                         [c \in columns |->
                            CASE c = DIFF_COLUMN -> difference(dates[k])
                              [] c = FLAG_COLUMN ->
                                    PyBool(difference(dates[k]).t = "int" /\ difference(dates[k]).n > 0)
                              [] OTHER -> value(dates[k], c)]]]

\* comparison.reset_index(): the index becomes the column "date"
reset_index(pivot) ==
    DataFrame(<<"date">> \o pivot.columns,
              [k \in DOMAIN pivot.rows |->
                 [c \in {"date"} \cup DOMAIN pivot.rows[k] |->
                    IF c = "date" THEN pivot.index[k] ELSE pivot.rows[k][c]]])

\* a float that is the quotient of two integers, in lowest terms
RECURSIVE GCD(_, _)
GCD(a, b) == IF b = 0 THEN (IF a < 0 THEN -a ELSE a) ELSE GCD(b, a % b)

Fraction(num, den) ==
    LET g == GCD(num, den)
        sign == IF den < 0 THEN -1 ELSE 1
    IN [t |-> "float", num |-> sign * (num \div g), den |-> sign * (den \div g)]

\* Series.unique(): the values in the order of their first appearance
RECURSIVE unique(_)
unique(values) ==
    IF values = <<>> THEN <<>>
    ELSE LET front == unique(SubSeq(values, 1, Len(values) - 1))
         IN IF values[Len(values)] \in Range(front) THEN front
            ELSE Append(front, values[Len(values)])

\* the sum of a sequence of numbers
RECURSIVE Sum(_)
Sum(values) == IF values = <<>> THEN 0 ELSE Head(values) + Sum(Tail(values))

\* Series.std(): the sample standard deviation (ddof=1), NaN for one value
std(values) ==
    LET n == Len(values)
        sum == Sum(values)
        squares == Sum([i \in 1..n |-> values[i] * values[i]])
    IN IF n < 2 THEN NaN
       ELSE [t |-> "sqrt", of |-> Fraction(n * squares - sum * sum, n * (n - 1))]

\* the dict a loop over df["geo"].unique() fills with the regions' entries
\* under the key region_data["country"].iloc[0]: a later region with the
\* same display name replaces the entry of an earlier one
ByCountryName(rows, entries) ==
    LET geos == unique([i \in DOMAIN rows |-> rows[i].geo])
        country_name(geo) == SelectSeq(rows, LAMBDA r : r.geo = geo)[1].country
        names == {country_name(geos[k]) : k \in DOMAIN geos}
        winner(name) == CHOOSE k \in DOMAIN geos :
                           /\ country_name(geos[k]) = name
                           /\ \A j \in DOMAIN geos : country_name(geos[j]) = name => j <= k
    IN [name \in names |-> entries[geos[winner(name)]]]

\* sort_values("date", ascending=False) is no stable sort: of the rows that
\* share the latest date any one can come first, and pick says which
calculate_statistics(df, config, pick) ==
    LET cfg == ensure_config(config)
        df_filtered == SelectSeq(df.rows, LAMBDA r : DateGE(r.date, cfg.analysis_start_date))
        entry(region_data) ==
            LET n == Len(region_data)
                values == [i \in 1..n |-> region_data[i].inflation_rate]
                ascending == [k \in 1..n |->
                                CHOOSE v \in Range(values) :
                                   /\ Cardinality({i \in 1..n : values[i] < v}) < k
                                   /\ Cardinality({i \in 1..n : values[i] <= v}) >= k]
                newest == SelectSeq(region_data,
                                    LAMBDA r : \A i \in 1..n :
                                                  Ordinal(region_data[i].date) <= Ordinal(r.date))
                first == newest[((pick - 1) % Len(newest)) + 1]
            IN [mean |-> Fraction(Sum(values), n),
                median |-> IF n % 2 = 1 THEN Fraction(ascending[(n + 1) \div 2], 1)
                           ELSE Fraction(ascending[n \div 2] + ascending[(n \div 2) + 1], 2),
                min |-> ascending[1],
                max |-> ascending[n],
                std |-> std(values),
                latest |-> first.inflation_rate,
                latest_date |-> first.date]
    IN CASE IsRaise(cfg) -> cfg
         [] cfg.analysis_start_date.t = "none" -> Raise("TypeError")
         [] OTHER ->
                ByCountryName(df_filtered,
                              [geo \in {df_filtered[i].geo : i \in DOMAIN df_filtered} |->
                                 entry(SelectSeq(df_filtered, LAMBDA r : r.geo = geo))])

\* Series.idxmax() and Series.idxmin(): the position of the first of the
\* largest (smallest) values
idxmax_last(values) ==
    CHOOSE i \in DOMAIN values :
       /\ \A k \in DOMAIN values : values[k] <= values[i]
       /\ \A k \in (i + 1)..Len(values) : values[k] < values[i]

idxmax(values) ==
    CHOOSE i \in DOMAIN values :
       /\ \A k \in DOMAIN values : values[k] <= values[i]
       /\ \A k \in 1..(i - 1) : values[k] < values[i]

idxmin(values) ==
    CHOOSE i \in DOMAIN values :
       /\ \A k \in DOMAIN values : values[k] >= values[i]
       /\ \A k \in 1..(i - 1) : values[k] > values[i]

\* the extremes of the region's most recent month only
TrendEntry_recent(rows) ==
    LET newest == SelectSeq(rows, LAMBDA r : \A i \in DOMAIN rows :
                                                Ordinal(rows[i].date) <= Ordinal(r.date))
        values == [i \in DOMAIN newest |-> newest[i].inflation_rate]
    IN [highest_date |-> newest[idxmax(values)].date,
        highest_rate |-> newest[idxmax(values)].inflation_rate,
        lowest_date |-> newest[idxmin(values)].date,
        lowest_rate |-> newest[idxmin(values)].inflation_rate]

\* the entry of one region: its rows in date order, then the extremes
TrendEntry(rows) ==
    LET region_data == SortByDate(rows)
        values == [i \in DOMAIN region_data |-> region_data[i].inflation_rate]
    IN [highest_date |-> region_data[idxmax(values)].date,
        highest_rate |-> region_data[idxmax(values)].inflation_rate,
        lowest_date |-> region_data[idxmin(values)].date,
        lowest_rate |-> region_data[idxmin(values)].inflation_rate]

identify_trends(df) ==
    ByCountryName(df.rows,
                  [geo \in {df.rows[i].geo : i \in DOMAIN df.rows} |->
                     TrendEntry(SelectSeq(df.rows, LAMBDA r : r.geo = geo))])

(***************************************************************************)
(* inflation_report/forecasting.py                                          *)
(***************************************************************************)
\* the month moves on, the year does not
AddMonths_no_carry(ts, i) ==
    LET m == ((ts.m - 1 + i) % 12) + 1
    IN Timestamp(ts.y, m, IF ts.d <= DaysInMonth(ts.y, m) THEN ts.d ELSE DaysInMonth(ts.y, m))

\* ts + pd.DateOffset(months=i): the same day i months later, or the last
\* day of that month
AddMonths(ts, i) ==
    LET k == MonthIndex(ts) + i
        y == k \div 12
        m == (k % 12) + 1
    IN Timestamp(y, m, IF ts.d <= DaysInMonth(y, m) THEN ts.d ELSE DaysInMonth(y, m))

\* a forecast: the method that made it, one value per period and the
\* standard deviation of the residuals
Forecast(method, values, resid_std) ==
    [t |-> "forecast", method |-> method, values |-> values, resid_std |-> resid_std]

\* fit is what the statsmodels library does with the series: it raises, or
\* it returns a fitted model, here a level, a trend and a residual variance;
\* fitted.forecast raises ValueError when asked for no period at all
_forecast_holt_winters(series, periods, fit) ==
    IF Len(series) < 24 THEN Raise("ValueError")
    ELSE IF IsRaise(fit) THEN fit
    ELSE IF periods < 1 THEN Raise("ValueError")
    ELSE Forecast("holt_winters",
                  [i \in 1..periods |-> Fraction(fit.level + i * fit.trend, 1)],
                  [t |-> "sqrt", of |-> fit.variance])

\* least squares of the values on x = 0 .. n-1, predicted at
\* x = n .. n+periods-1; predict raises ValueError for no period at all, and
\* np.std(..., ddof=1) of the residual of a single value is NaN
_forecast_linear_regression(series, periods) ==
    LET n == Len(series)
        y == [i \in 1..n |-> series[i].value]
        Sx == Sum([i \in 1..n |-> i - 1])
        Sy == Sum(y)
        slope_num == n * Sum([i \in 1..n |-> (i - 1) * y[i]]) - Sx * Sy
        slope_den == n * Sum([i \in 1..n |-> (i - 1) * (i - 1)]) - Sx * Sx
        spread == n * Sum([i \in 1..n |-> y[i] * y[i]]) - Sy * Sy
        predict(x) == IF n = 1 THEN Fraction(y[1], 1)
                      ELSE Fraction(Sy * slope_den - slope_num * Sx + n * slope_num * x,
                                    n * slope_den)
    IN IF periods < 1 THEN Raise("ValueError")
       ELSE Forecast("linear_regression",
                     [i \in 1..periods |-> predict(n + i - 1)],
                     IF n = 1 THEN NaN
                     ELSE [t |-> "sqrt",
                           of |-> Fraction(spread * slope_den - slope_num * slope_num,
                                           n * slope_den * (n - 1))])

\* values -/+ 1.96 * resid_std, in pairs <<lower, upper>>
_prediction_interval(values, resid_std) ==
    LET bound(value, z) ==
            IF resid_std = NaN THEN NaN
            ELSE [t |-> "float", value |-> value, z |-> z, std |-> resid_std]
    IN [i \in DOMAIN values |-> <<bound(values[i], -196), bound(values[i], 196)>>]

\* lines 74-80: the region's rows in date order, put on the month starts
\* from the first to the last date, without the months that have no value;
\* asfreq raises ValueError when a date occurs twice
RegionSeries(rows, geo) ==
    LET hist == SortByDate(SelectSeq(rows, LAMBDA r : r.geo = geo))
        twice == \E i, j \in DOMAIN hist : i /= j /\ hist[i].date = hist[j].date
        monthly == SelectSeq(hist, LAMBDA r : r.date.d = 1)
    IN IF twice THEN Raise("ValueError")
       ELSE [t |-> "series",
             items |-> [i \in DOMAIN monthly |->
                          [date |-> monthly[i].date, value |-> monthly[i].inflation_rate]]]

\* lines 84-87: Holt-Winters, and linear regression when that raises
RegionForecast(series, forecast_horizon, fit) ==
    IF IsRaise(_forecast_holt_winters(series, forecast_horizon, fit))
    THEN _forecast_linear_regression(series, forecast_horizon)
    ELSE _forecast_holt_winters(series, forecast_horizon, fit)

ForecastColumns == <<"date", "geo", "country", "inflation_rate", "lower_bound", "upper_bound">>

\* lines 72-103: the forecast points of every region, region by region in
\* the order the regions first occur, before the display limit is applied
ForecastResults(rows, cfg, fit) ==
    LET geos == unique([i \in DOMAIN rows |-> rows[i].geo])
        series(k) == RegionSeries(rows, geos[k])
        forecast(k) == RegionForecast(series(k).items, cfg.forecast_months, fit)
        region(k, values, interval, last_date) ==
            [i \in DOMAIN values |->
               [date |-> AddMonths(last_date, i),
                geo |-> geos[k],
                country |-> IF geos[k] \in DOMAIN COUNTRY_NAMES
                            THEN COUNTRY_NAMES[geos[k]] ELSE geos[k],
                inflation_rate |-> values[i],
                lower_bound |-> interval[i][1],
                upper_bound |-> interval[i][2]]]
    IN CASE \E k \in DOMAIN geos : IsRaise(series(k)) -> Raise("ValueError")
         [] \E k \in DOMAIN geos : series(k).items /= <<>> /\ IsRaise(forecast(k)) ->
                Raise("ValueError")
         [] OTHER ->
                PyList(Flatten([k \in DOMAIN geos |->
                                  IF series(k).items = <<>> THEN <<>>
                                  ELSE region(k, forecast(k).values,
                                              _prediction_interval(forecast(k).values,
                                                                   forecast(k).resid_std),
                                              series(k).items[Len(series(k).items)].date)]))

\* lines 105-108 given the points of lines 72-103: a table without a column
\* has no "date" to compare, the points up to the display limit otherwise
Truncate(results, cfg) ==
    CASE IsRaise(results) -> results
      [] results.items = <<>> -> Raise("KeyError")
      [] OTHER ->
           DataFrame(ForecastColumns,
                     SortByDate(SelectSeq(results.items,
                                          LAMBDA r : DateLE(r.date, cfg.forecast_display_limit))))

forecast_inflation(df, config, fit) ==
    LET cfg == ensure_config(config)
        rows == SelectSeq(df.rows, LAMBDA r : r.coicop = "CP00")
    IN CASE IsRaise(cfg) -> cfg
         [] rows = <<>> -> DataFrame(ForecastColumns, <<>>)
         [] OTHER -> Truncate(ForecastResults(rows, cfg, fit), cfg)

(***************************************************************************)
(* backend/app.py                                                           *)
(***************************************************************************)
\* DataRequest: every field is None unless the payload sets it
DataRequest(countries, analysis, historical) ==
    [t |-> "request",
     countries |-> countries,
     analysis_start_date |-> analysis,
     historical_start_date |-> historical]

\* json.dumps of a text: quotes and backslashes are escaped
RECURSIVE JsonEscape(_)
JsonEscape(s) ==
    IF Len(s) = 0 THEN ""
    ELSE (IF Head(s) \in {"\"", "\\"} THEN "\\" \o Head(s) ELSE Head(s)) \o JsonEscape(Tail(s))

RECURSIVE JsonJoin(_)
JsonJoin(parts) ==
    IF parts = <<>> THEN ""
    ELSE IF Len(parts) = 1 THEN parts[1]
    ELSE parts[1] \o ", " \o JsonJoin(Tail(parts))

RECURSIVE json_dumps(_)
json_dumps(v) ==
    CASE v.t = "none" -> "null"
      [] v.t = "str" -> "\"" \o JsonEscape(v.s) \o "\""
      [] v.t = "int" -> ToString(v.n)
      [] v.t = "list" -> "[" \o JsonJoin([i \in DOMAIN v.items |-> json_dumps(v.items[i])]) \o "]"

\* a key built from the dates alone
_cache_key_dates_only(override) ==
    IF override.t = "none" THEN "default"
    ELSE IF override.analysis_start_date.t = "none" /\ override.historical_start_date.t = "none"
    THEN "default"
    ELSE "{\"analysis_start_date\": " \o json_dumps(override.analysis_start_date)
         \o ", \"historical_start_date\": " \o json_dumps(override.historical_start_date)
         \o "}"

_cache_key(override) ==
    IF override.t = "none" THEN "default"
    ELSE "{\"analysis_start_date\": " \o json_dumps(override.analysis_start_date)
         \o ", \"countries\": " \o json_dumps(override.countries)
         \o ", \"historical_start_date\": " \o json_dumps(override.historical_start_date)
         \o "}"

\* datetime columns are the ones built with pd.to_datetime
DatetimeColumns == {"date"}

\* strftime("%Y-%m-%d")
strftime(ts) == ZeroPad(ts.y, 4) \o "-" \o ZeroPad(ts.m, 2) \o "-" \o ZeroPad(ts.d, 2)

_df_records(df) ==
    IF Empty(df) THEN <<>>
    ELSE [i \in DOMAIN df.rows |->
            [c \in DOMAIN df.rows[i] |->
               IF c \in DatetimeColumns THEN strftime(df.rows[i][c]) ELSE df.rows[i][c]]]

\* an override whose country list is merged into the base configuration's
ApplyOverride_merge(cfg, override) ==
    LET c1 == IF Truthy(override.countries)
              THEN [cfg EXCEPT !.countries = @ \o override.countries.items] ELSE cfg
        analysis == to_datetime(override.analysis_start_date)
        c2 == IF Truthy(override.analysis_start_date)
              THEN (IF IsRaise(analysis) THEN analysis
                    ELSE [c1 EXCEPT !.analysis_start_date = analysis])
              ELSE c1
        historical == to_datetime(override.historical_start_date)
    IN IF override.t = "none" THEN cfg
       ELSE IF IsRaise(c2) THEN c2
       ELSE IF Truthy(override.historical_start_date)
            THEN (IF IsRaise(historical) THEN historical
                  ELSE [c2 EXCEPT !.historical_start_date = historical])
            ELSE c2

\* lines 100-127 of compute_data: the override's fields replace the base
\* configuration's, one after the other, where they are truthy
ApplyOverride(cfg, override) ==
    LET c1 == IF Truthy(override.countries)
              THEN [cfg EXCEPT !.countries = override.countries.items] ELSE cfg
        analysis == to_datetime(override.analysis_start_date)
        c2 == IF Truthy(override.analysis_start_date)
              THEN (IF IsRaise(analysis) THEN analysis
                    ELSE [c1 EXCEPT !.analysis_start_date = analysis])
              ELSE c1
        historical == to_datetime(override.historical_start_date)
    IN IF override.t = "none" THEN cfg
       ELSE IF IsRaise(c2) THEN c2
       ELSE IF Truthy(override.historical_start_date)
            THEN (IF IsRaise(historical) THEN historical
                  ELSE [c2 EXCEPT !.historical_start_date = historical])
            ELSE c2

\* ConfigResponse(...): the dates as texts; pydantic rejects a country that
\* is not a text
ConfigResponse(cfg) ==
    LET analysis == date_str(cfg.analysis_start_date)
        historical == date_str(cfg.historical_start_date)
        limit == date_str(cfg.forecast_display_limit)
    IN CASE IsRaise(analysis) -> analysis
         [] IsRaise(historical) -> historical
         [] IsRaise(limit) -> limit
         [] \E i \in DOMAIN cfg.countries : cfg.countries[i].t /= "str" -> Raise("ValidationError")
         [] OTHER ->
                [t |-> "ConfigResponse",
                 countries |-> [i \in DOMAIN cfg.countries |-> cfg.countries[i].s],
                 analysis_start_date |-> analysis.s,
                 historical_start_date |-> historical.s,
                 forecast_months |-> cfg.forecast_months,
                 forecast_training_window |-> cfg.forecast_training_window,
                 forecast_display_limit |-> limit.s]

InterestRecords(interest_df) ==
    IF ~Empty(interest_df) THEN _df_records(interest_df) ELSE <<>>

ComparisonRecords(comparison_df) ==
    IF ~Empty(comparison_df) THEN _df_records(reset_index(comparison_df)) ELSE <<>>

\* a response that leaves out the parts that are empty
DataResponse_omit_empty(config, inflation, interest_rates, comparison) ==
    IF comparison = <<>> \/ interest_rates = <<>>
    THEN [t |-> "DataResponse", config |-> config, inflation |-> inflation]
    ELSE [t |-> "DataResponse", config |-> config, inflation |-> inflation,
          interest_rates |-> interest_rates, comparison |-> comparison]

DataResponse(config, inflation, interest_rates, comparison) ==
    [t |-> "DataResponse",
     config |-> config,
     inflation |-> inflation,
     interest_rates |-> interest_rates,
     comparison |-> comparison]

\* what the network does for one computation: the outcome of the inflation
\* request, of the ECB request and of the FRED request
Net(inflation, ecb, fed) == [inflation |-> inflation, ecb |-> ecb, fed |-> fed]

\* what one computation leaves behind: the value returned or the exception
\* raised, whether a request went out, and the configuration computed with
Outcome(ret, fetched, cfg, interest_empty, comparison_empty) ==
    [ret |-> ret, fetched |-> fetched, cfg |-> cfg,
     interest_empty |-> interest_empty, comparison_empty |-> comparison_empty]

\* lines 136-148 of compute_data: the response built from the tables
Respond(cfg, df, interest_df, comparison_df, config) ==
    CASE IsRaise(interest_df) -> Outcome(interest_df, TRUE, cfg, FALSE, FALSE)
      [] IsRaise(comparison_df) -> Outcome(comparison_df, TRUE, cfg, FALSE, FALSE)
      [] IsRaise(config) -> Outcome(config, TRUE, cfg, FALSE, FALSE)
      [] OTHER ->
             Outcome(DataResponse(config, _df_records(df), InterestRecords(interest_df),
                                  ComparisonRecords(comparison_df)),
                     TRUE, cfg, Empty(interest_df), Empty(comparison_df))

\* lines 131-134 of compute_data: the interest rates and the comparison
Analyse(cfg, df, net) ==
    IF IsRaise(df) THEN Outcome(df, TRUE, cfg, FALSE, FALSE)
    ELSE Respond(cfg, df, fetch_interest_rates(net.ecb, net.fed), compare_regions(df),
                 ConfigResponse(cfg))

\* line 130 of compute_data
Process(cfg, raw, net) ==
    IF IsRaise(raw) THEN Outcome(raw, TRUE, cfg, FALSE, FALSE)
    ELSE Analyse(cfg, process_inflation_data(raw, cfg), net)

\* line 129 of compute_data
Fetch(cfg, net) ==
    IF IsRaise(cfg) THEN Outcome(cfg, FALSE, cfg, FALSE, FALSE)
    ELSE Process(cfg, fetch_inflation_data(cfg, net.inflation), net)

\* lines 100-127 of compute_data
Override(base, override, net) ==
    IF IsRaise(base) THEN Outcome(base, FALSE, base, FALSE, FALSE)
    ELSE Fetch(ApplyOverride(base, override), net)

\* lines 99-148 of compute_data: the configuration, the pipeline and the
\* response; the first exception ends the computation
Pipeline(config_path, override, fs, net) ==
    Override(load_config(config_path, fs), override, net)

(***************************************************************************)
(* The inputs of the model                                                  *)
(***************************************************************************)
\* the largest number of DataResponse objects a behaviour creates
MaxObjects == 2

ALT_PATH == "alt.yaml"

ConfigPaths == {PyNone, PyStr(ALT_PATH)}

\* a project configuration file: other countries and dates, no training
\* window
ProjectYaml ==
    Yaml([countries |-> PyList(Strs(<<"AT", "EA">>)),
          analysis_start_date |-> PyStr("2021-06-01"),
          historical_start_date |-> PyStr("2010-01"),
          forecast_months |-> PyStr("6"),
          forecast_display_limit |-> PyStr("2026-12-31")])

\* a file that sets the countries (as a single code) and nothing else
PartialYaml == Yaml([countries |-> PyStr("AT")])

\* a file whose analysis start date is no date
BadDateYaml ==
    Yaml([analysis_start_date |-> PyStr("soon"),
          historical_start_date |-> PyStr("2002-01-01"),
          forecast_display_limit |-> PyStr("2026-03-31")])

\* no project file and an unreadable alternative; a project file as the
\* alternative; a partial project file and an alternative with a bad date
FileSystems ==
    {[f \in {ALT_PATH} |-> Broken],
     [f \in {ALT_PATH} |-> ProjectYaml],
     [f \in {DEFAULT_CONFIG_PATH, ALT_PATH} |-> IF f = ALT_PATH THEN BadDateYaml ELSE PartialYaml]}

Overrides ==
    {PyNone,
     DataRequest(PyNone, PyNone, PyNone),
     DataRequest(PyList(Strs(<<"DE">>)), PyNone, PyNone),
     DataRequest(PyList(<<>>), PyStr("1990-01-01"), PyNone),
     DataRequest(PyNone, PyStr(""), PyStr("2030-01-01"))}

LiveColumns == <<"freq", "coicop", "geo\\TIME_PERIOD", "2023-01", "2023-02">>

LiveRow(coicop, geo, jan, feb) ==
    [c \in Range(LiveColumns) |->
       CASE c = "freq" -> "M"
         [] c = "coicop" -> coicop
         [] c = "geo\\TIME_PERIOD" -> geo
         [] c = "2023-01" -> jan
         [] OTHER -> feb]

\* a live HICP table: a missing value, both euro-area codes, a category and
\* a country nobody asked for
LiveTable ==
    DataFrame(LiveColumns,
              <<LiveRow("CP00", "AT", PyInt(110), PyStr(":")),
                LiveRow("CP00", "EA19", PyInt(90), PyInt(80)),
                LiveRow("CP00", "EA20", PyInt(92), PyInt(81)),
                LiveRow("TOTAL", "AT", PyInt(150), PyInt(140)),
                LiveRow("FOOD", "US", NaN, PyInt(310))>>)

\* a live table that holds the same series twice
DuplicateTable ==
    DataFrame(LiveColumns,
              <<LiveRow("CP00", "AT", PyInt(110), PyInt(120)),
                LiveRow("CP00", "AT", PyInt(111), NaN)>>)

\* a live table without the coicop column
NoCoicopTable ==
    DataFrame(<<"geo", "2023-01">>,
              <<[c \in {"geo", "2023-01"} |-> IF c = "geo" THEN "AT" ELSE PyInt(110)]>>)

EcbColumns == <<"int_rt", "geo\\TIME_PERIOD", "1999-12", "2023-01">>

EcbRow(int_rt, geo, old, new) ==
    [c \in Range(EcbColumns) |->
       CASE c = "int_rt" -> int_rt
         [] c = "geo\\TIME_PERIOD" -> geo
         [] c = "1999-12" -> old
         [] OTHER -> new]

EcbTable ==
    DataFrame(EcbColumns,
              <<EcbRow("DFR", "EA", PyInt(200), PyInt(250)),
                EcbRow("EONIA", "EA", PyInt(210), PyInt(260))>>)

FedRow(date, rate) == [c \in {"DATE", "DFF"} |-> IF c = "DATE" THEN date ELSE rate]

FedTable ==
    DataFrame(<<"DATE", "DFF">>,
              <<FedRow(Timestamp(2023, 1, 2), PyInt(433)),
                FedRow(Timestamp(2023, 1, 3), PyInt(434)),
                FedRow(Timestamp(2023, 3, 1), NaN),
                FedRow(Timestamp(2023, 3, 2), PyInt(458))>>)

NetOutcomes ==
    {Net(NoLib, NoLib, NoLib),
     Net(FetchError, FetchError, FetchError),
     Net(LiveTable, EcbTable, FedTable),
     Net(DuplicateTable, NoLib, FedTable),
     Net(NoCoicopTable, EcbTable, NoLib)}

\* Pipeline on every input of the model, evaluated once and kept as a table
RECURSIVE Tabulate(_)
Tabulate(inputs) ==
    IF Len(inputs) = 0 THEN <<>>
    ELSE IF Len(inputs) = 1
    THEN inputs[1] :> Pipeline(inputs[1][1], inputs[1][2], inputs[1][3], inputs[1][4])
    ELSE Tabulate(SubSeq(inputs, 1, Len(inputs) \div 2))
         @@ Tabulate(SubSeq(inputs, (Len(inputs) \div 2) + 1, Len(inputs)))

PipelineInputs ==
    LET P == SetToSeq(ConfigPaths)
        O == SetToSeq(Overrides)
        F == SetToSeq(FileSystems)
        N == SetToSeq(NetOutcomes)
    IN [i \in 1..(Len(P) * Len(O) * Len(F) * Len(N)) |->
          <<P[((i - 1) % Len(P)) + 1],
            O[(((i - 1) \div Len(P)) % Len(O)) + 1],
            F[(((i - 1) \div (Len(P) * Len(O))) % Len(F)) + 1],
            N[((i - 1) \div (Len(P) * Len(O) * Len(F))) + 1]>>]

PipelineTable == Tabulate(PipelineInputs)

\* a DataResponse object on the heap: its identity and its value
\* a DataResponse object as callers and the cache hold it: its identity; its
\* content never changes after the construction and is `ret` of the
\* computation that created it
Object(id) == [t |-> "object", id |-> id]

\* a lookup that finds the default entry only
CacheHit_default_only(cache, cache_key) ==
    cache_key = "default" /\ cache_key \in DOMAIN cache

CacheHit(cache, cache_key) == cache_key \in DOMAIN cache

CacheStore(cache, cache_key, object) ==
    [k \in DOMAIN cache \cup {cache_key} |-> IF k = cache_key THEN object ELSE cache[k]]

\* the key is given its object before the computation has succeeded
Lookup_store_first(cache, cache_key, run, id) ==
    IF CacheHit(cache, cache_key)
    THEN [ret |-> cache[cache_key], part |-> "response", cache |-> cache,
          computed |-> FALSE, fetched |-> FALSE, created |-> FALSE, run |-> run]
    ELSE IF IsRaise(run.ret)
    THEN [ret |-> run.ret, part |-> "response",
          cache |-> CacheStore(cache, cache_key, Object(id)),
          computed |-> TRUE, fetched |-> run.fetched, created |-> FALSE, run |-> run]
    ELSE [ret |-> Object(id), part |-> "response",
          cache |-> CacheStore(cache, cache_key, Object(id)),
          computed |-> TRUE, fetched |-> TRUE, created |-> TRUE, run |-> run]

\* lines 95-97 and 149-150 of compute_data: the cached object when the key
\* is present; otherwise the computation `run`, stored when it succeeded
Lookup(cache, cache_key, run, id) ==
    IF CacheHit(cache, cache_key)
    THEN [ret |-> cache[cache_key], part |-> "response", cache |-> cache,
          computed |-> FALSE, fetched |-> FALSE, created |-> FALSE, run |-> run]
    ELSE IF IsRaise(run.ret)
    THEN [ret |-> run.ret, part |-> "response", cache |-> cache,
          computed |-> TRUE, fetched |-> run.fetched, created |-> FALSE, run |-> run]
    ELSE [ret |-> Object(id), part |-> "response",
          cache |-> CacheStore(cache, cache_key, Object(id)),
          computed |-> TRUE, fetched |-> TRUE, created |-> TRUE, run |-> run]

\* compute_data(config_path, override) on the cache `cache`, with `id` the
\* identity of the object a computation would create: what it returns (an
\* object or an exception), the cache afterwards and what it did
compute_data(config_path, override, cache, fs, net, id) ==
    Lookup(cache, _cache_key(override), PipelineTable[<<config_path, override, fs, net>>], id)

HTTPException(status_code, exc) ==
    [t |-> "raise", exc |-> "HTTPException", status_code |-> status_code, detail |-> exc.exc]

\* GET /data calls compute_data(); an exception is left to the framework
get_data(cache, fs, net, id) == compute_data(PyNone, PyNone, cache, fs, net, id)

\* data.config: the config part of the object returned
ConfigOf(data) ==
    IF IsRaise(data.ret) THEN data ELSE [data EXCEPT !.part = "config"]

\* GET /config returns compute_data().config
get_config(cache, fs, net, id) == ConfigOf(compute_data(PyNone, PyNone, cache, fs, net, id))

\* no except clause: the exception is left to the framework
Status500_reraise(data) == data

\* the except clause of refresh_data
Status500(data) ==
    IF IsRaise(data.ret) THEN [data EXCEPT !.ret = HTTPException(500, data.ret)]
    ELSE data

\* a refresh that computes whatever the cache holds
refresh_data_recompute(payload, cache, fs, net, id) ==
    Status500([compute_data(PyNone, payload, <<>>, fs, net, id) EXCEPT
                 !.cache = IF @ = <<>> THEN cache
                           ELSE [k \in DOMAIN cache \cup DOMAIN @ |->
                                   IF k \in DOMAIN @ THEN @[k] ELSE cache[k]]])

\* POST /refresh: any exception becomes an HTTPException with status 500
refresh_data(payload, cache, fs, net, id) ==
    Status500(compute_data(PyNone, payload, cache, fs, net, id))

\* DATA_CACHE[_cache_key(None)] = data, or the warm-up's exception swallowed
WarmUp(cache, data) ==
    IF IsRaise(data.ret) THEN [data EXCEPT !.cache = cache]
    ELSE [data EXCEPT !.cache = CacheStore(data.cache, _cache_key(PyNone), data.ret)]

\* lifespan, before the yield
lifespan_startup(cache, fs, net, id) ==
    WarmUp(cache, compute_data(PyNone, PyNone, cache, fs, net, id))

\* a shutdown that leaves the cache as it is
lifespan_shutdown_keep(cache) == cache

\* lifespan, after the yield: DATA_CACHE.clear()
lifespan_shutdown(cache) == <<>>

(***************************************************************************)
(* The server as a state machine                                            *)
(***************************************************************************)
VARIABLES
    DATA_CACHE,   \* backend/app.py DATA_CACHE: cache key -> DataResponse object
    files,        \* the configuration files on disk
    phase,        \* "stopped" or "running": where the lifespan handler is
    next_id,      \* the identity of the next object created
    last,         \* the last operation: its arguments, what it returned and did
    origin        \* the objects created since the cache was last cleared:
                  \* object identity -> the call that created the object

vars == <<DATA_CACHE, files, phase, next_id, last, origin>>

NoCall == [op |-> "none"]

\* the record of a call that went through compute_data
Call(op, config_path, override, r) ==
    [op |-> op,
     config_path |-> config_path,
     override |-> override,
     ret |-> r.ret,
     part |-> r.part,
     value |-> IF r.created THEN r.run.ret ELSE PyNone,
     computed |-> r.computed,
     fetched |-> r.fetched,
     created |-> r.created,
     cfg |-> IF r.computed THEN r.run.cfg ELSE PyNone,
     interest_empty |-> r.created /\ r.run.interest_empty,
     comparison_empty |-> r.created /\ r.run.comparison_empty]

Finish(op, config_path, override, r) ==
    /\ r.created => next_id <= MaxObjects
    /\ DATA_CACHE' = r.cache
    /\ last' = Call(op, config_path, override, r)
    /\ next_id' = IF r.created THEN next_id + 1 ELSE next_id
    /\ origin' = IF r.created
                 THEN [i \in DOMAIN origin \cup {next_id} |->
                         IF i = next_id
                         THEN [config_path |-> config_path, override |-> override,
                               cfg |-> r.run.cfg]
                         ELSE origin[i]]
                 ELSE origin
    /\ UNCHANGED files

Init ==
    /\ DATA_CACHE = <<>>
    /\ files \in FileSystems
    /\ phase = "stopped"
    /\ next_id = 1
    /\ last = NoCall
    /\ origin = <<>>

Startup ==
    /\ phase = "stopped"
    /\ \E net \in NetOutcomes :
          Finish("startup", PyNone, PyNone,
                 lifespan_startup(DATA_CACHE, files, net, next_id))
    /\ phase' = "running"

Shutdown ==
    /\ phase = "running"
    /\ DATA_CACHE' = lifespan_shutdown(DATA_CACHE)
    /\ phase' = "stopped"
    /\ last' = [op |-> "shutdown"]
    /\ origin' = <<>>
    /\ UNCHANGED <<files, next_id>>

Health ==
    /\ phase = "running"
    /\ last' = [op |-> "GET /health", ret |-> [status |-> "ok"]]
    /\ UNCHANGED <<DATA_CACHE, files, phase, next_id, origin>>

GetConfig ==
    /\ phase = "running"
    /\ \E net \in NetOutcomes :
          Finish("GET /config", PyNone, PyNone,
                 get_config(DATA_CACHE, files, net, next_id))
    /\ UNCHANGED phase

GetData ==
    /\ phase = "running"
    /\ \E net \in NetOutcomes :
          Finish("GET /data", PyNone, PyNone,
                 get_data(DATA_CACHE, files, net, next_id))
    /\ UNCHANGED phase

Refresh ==
    /\ phase = "running"
    /\ \E payload \in Overrides, net \in NetOutcomes :
          Finish("POST /refresh", PyNone, payload,
                 refresh_data(payload, DATA_CACHE, files, net, next_id))
    /\ UNCHANGED phase

\* compute_data called as a function, as the tests do
ComputeData ==
    /\ \E config_path \in ConfigPaths, override \in Overrides, net \in NetOutcomes :
          Finish("compute_data", config_path, override,
                 compute_data(config_path, override, DATA_CACHE, files, net, next_id))
    /\ UNCHANGED phase

Next ==
    \/ Startup
    \/ Shutdown
    \/ Health
    \/ GetConfig
    \/ GetData
    \/ Refresh
    \/ ComputeData

Spec == Init /\ [][Next]_vars

(***************************************************************************)
(* The result cache and the lifespan (claims C1 to C6, C9), checked under   *)
(* Spec                                                                     *)
(***************************************************************************)
\* the operations that go through compute_data
Calls == {"startup", "GET /config", "GET /data", "POST /refresh", "compute_data"}

\* C1: once a compute_data call for an override has succeeded, and for as
\* long as the cache was not cleared since, every later call with an equal
\* override (the absent override too) returns the very same object, and it
\* neither computes nor fetches anything.
C1_SameObjectOnRepeat ==
    [][\A id \in DOMAIN origin :
          (/\ last'.op \in Calls
           /\ last'.override = origin[id].override)
          => (/\ last'.ret = Object(id)
              /\ ~last'.computed
              /\ ~last'.fetched)]_vars

\* a call with a request payload that was answered from the cache
C1_Repeated ==
    /\ last.op = "compute_data"
    /\ last.override.t = "request"
    /\ ~last.computed
    /\ last.ret.t = "object"
    /\ origin[last.ret.id].override = last.override

\* C2: a call whose override sets the countries and a call without override
\* never share a cache entry: the object returned to the one was never
\* created for the other, in whichever order the calls come.
C2_KeptApartByPayload ==
    (last.op \in Calls /\ last.ret.t = "object") =>
        /\ (last.override.t = "request" /\ last.override.countries.t = "list")
              => origin[last.ret.id].override.t = "request"
        /\ last.override.t = "none"
              => origin[last.ret.id].override.t = "none"

\* a call that sets the countries computed its own object while the object
\* of a call without override was in the cache
C2_BothStored ==
    /\ last.op = "compute_data"
    /\ last.override.t = "request"
    /\ last.override.countries.t = "list"
    /\ last.created
    /\ \E id \in DOMAIN origin : origin[id].override.t = "none"

\* C3: two calls share a cache entry if and only if they resolve to the
\* same configuration: the object a call gets was created for the
\* configuration the call resolves to, and an object living in the cache for
\* that configuration is the one the call gets.
C3_KeyedByResolvedConfig ==
    (last.op \in Calls /\ last.ret.t = "object") =>
        LET base == load_config(last.config_path, files)
            resolved == IF IsRaise(base) THEN base ELSE ApplyOverride(base, last.override)
        IN /\ origin[last.ret.id].cfg = resolved
           /\ \A id \in DOMAIN origin :
                 origin[id].cfg = resolved => last.ret.id = id

\* C4: an entry once stored is never evicted, replaced or recomputed: every
\* step but the shutdown leaves each key with the object it held, and a
\* POST /refresh whose parameters were seen before returns that object
\* without computing or fetching.
C4_EntriesKept ==
    [][/\ last'.op /= "shutdown" =>
             \A k \in DOMAIN DATA_CACHE :
                 k \in DOMAIN DATA_CACHE' /\ DATA_CACHE'[k] = DATA_CACHE[k]
       /\ \A id \in DOMAIN origin :
             (/\ last'.op = "POST /refresh"
              /\ origin[id].override = last'.override)
             => (/\ last'.ret = Object(id)
                 /\ ~last'.computed
                 /\ ~last'.fetched
                 /\ DATA_CACHE' = DATA_CACHE)]_vars

\* a POST /refresh with a payload seen before, answered from a cache that
\* holds two entries
C4_RefreshSeen ==
    /\ last.op = "POST /refresh"
    /\ last.override.t = "request"
    /\ last.ret.t = "object"
    /\ ~last.computed
    /\ Cardinality(DOMAIN DATA_CACHE) >= 2

\* C5: requests are served only after the startup; the startup stores the
\* warm-up's object under the default key, or swallows the warm-up's
\* exception and starts without a default entry; the shutdown leaves the
\* cache empty.
C5_Lifespan ==
    [][/\ last'.op \in {"GET /health", "GET /config", "GET /data", "POST /refresh"}
             => phase = "running"
       /\ last'.op = "startup" =>
             /\ phase' = "running"
             /\ IF IsRaise(last'.ret)
                THEN _cache_key(PyNone) \notin DOMAIN DATA_CACHE'
                ELSE /\ _cache_key(PyNone) \in DOMAIN DATA_CACHE'
                     /\ DATA_CACHE'[_cache_key(PyNone)].id = last'.ret.id
       /\ last'.op = "shutdown" => DATA_CACHE' = <<>>]_vars

\* the shutdown has cleared a cache for which two objects were created
C5_ClearedAfterRequests ==
    /\ last.op = "shutdown"
    /\ DATA_CACHE = <<>>
    /\ origin = <<>>
    /\ next_id > 2

\* C6: the response a computation creates has the four parts config,
\* inflation, interest_rates and comparison; the last two are empty lists
\* where the table was empty.
C6_FourParts ==
    (last.op \in Calls /\ last.created) =>
        /\ {"config", "inflation", "interest_rates", "comparison"} \subseteq DOMAIN last.value
        /\ last.interest_empty => last.value.interest_rates = <<>>
        /\ last.comparison_empty => last.value.comparison = <<>>
        /\ \E k \in DOMAIN DATA_CACHE : DATA_CACHE[k] = last.ret

\* a response computed from an empty interest table and an empty comparison
C6_EmptyTables ==
    /\ last.op = "compute_data"
    /\ last.created
    /\ last.interest_empty
    /\ last.comparison_empty
    /\ last.value.inflation = <<>>
    /\ last.value.comparison = <<>>

\* C9: every configuration the system computes with has a country and
\* historical_start_date <= analysis_start_date.
C9_ValidConfig ==
    (last.op \in Calls /\ last.computed /\ last.cfg.t = "config") =>
        /\ Len(last.cfg.countries) > 0
        /\ IsTs(last.cfg.historical_start_date)
        /\ IsTs(last.cfg.analysis_start_date)
        /\ DateLE(last.cfg.historical_start_date, last.cfg.analysis_start_date)

(***************************************************************************)
(* The resolution of a configuration on its own: a file is loaded, the      *)
(* fields of a request replace the loaded ones, and a resolved              *)
(* configuration is resolved again (claims C7, C8, C10), checked under      *)
(* SpecConfig                                                               *)
(***************************************************************************)
\* a key the file does not hold
Missing == [t |-> "missing"]

CountriesInFile == {Missing, PyNone, PyStr("AT"), PyList(Strs(<<"AT", "EA">>))}
AnalysisInFile == {Missing, PyStr("2021-06-01"), PyStr("soon"), PyStr("")}
HistoricalInFile == {Missing, PyStr("2010-01")}
MonthsInFile == {Missing, PyStr("6"), PyInt(18), PyStr("six")}
LimitInFile == {Missing, PyStr("2026-12-31")}

\* the mapping yaml.safe_load returns for a file with these entries
Mapping(countries, analysis, historical, months, limit) ==
    LET entries == [countries |-> countries,
                    analysis_start_date |-> analysis,
                    historical_start_date |-> historical,
                    forecast_months |-> months,
                    forecast_display_limit |-> limit]
    IN [k \in {key \in DOMAIN entries : entries[key] /= Missing} |-> entries[k]]

ConfigFiles ==
    {Mapping(c, a, h, m, l) : c \in CountriesInFile, a \in AnalysisInFile,
                              h \in HistoricalInFile, m \in MonthsInFile,
                              l \in LimitInFile}

\* the payloads of a request, field by field: absent, empty, given
RequestCountries == {PyNone, PyList(<<>>), PyList(Strs(<<"DE">>))}
RequestAnalysis == {PyNone, PyStr(""), PyStr("1990-01-01")}
RequestHistorical == {PyNone, PyStr("soon"), PyStr("2015-06-01")}

Requests ==
    {PyNone} \cup {DataRequest(c, a, h) : c \in RequestCountries, a \in RequestAnalysis,
                                          h \in RequestHistorical}

InitConfig ==
    /\ DATA_CACHE = <<>>
    /\ files \in {<<>>} \cup {DEFAULT_CONFIG_PATH :> Yaml(m) : m \in ConfigFiles}
    /\ phase = "stopped"
    /\ next_id = 1
    /\ last = NoCall
    /\ origin = <<>>

\* load_config(config_path)
LoadConfig ==
    /\ \E config_path \in ConfigPaths :
          last' = [op |-> "load_config", config_path |-> config_path,
                   ret |-> load_config(config_path, files)]
    /\ UNCHANGED <<DATA_CACHE, files, phase, next_id, origin>>

\* lines 100-127 of compute_data on the configuration just loaded
ResolveOverride ==
    /\ last.op = "load_config"
    /\ last.ret.t = "config"
    /\ \E override \in Requests :
          last' = [op |-> "override", base |-> last.ret, override |-> override,
                   ret |-> ApplyOverride(last.ret, override)]
    /\ UNCHANGED <<DATA_CACHE, files, phase, next_id, origin>>

\* ensure_config on a resolved configuration
EnsureConfig ==
    /\ last.op \in {"load_config", "override"}
    /\ last.ret.t = "config"
    /\ last' = [op |-> "ensure_config", config |-> last.ret, ret |-> ensure_config(last.ret)]
    /\ UNCHANGED <<DATA_CACHE, files, phase, next_id, origin>>

\* ReportConfig.from_mapping on the fields of a resolved configuration
FromMapping ==
    /\ last.op \in {"load_config", "override"}
    /\ last.ret.t = "config"
    /\ last' = [op |-> "from_mapping", config |-> last.ret,
                ret |-> from_mapping(asdict(last.ret))]
    /\ UNCHANGED <<DATA_CACHE, files, phase, next_id, origin>>

NextConfig ==
    \/ LoadConfig
    \/ ResolveOverride
    \/ EnsureConfig
    \/ FromMapping

SpecConfig == InitConfig /\ [][NextConfig]_vars

\* C7 as stated: every field the request supplies replaces the base
\* configuration's (the country list as a whole), every field it does not
\* supply keeps the base configuration's value, and the three forecast
\* fields are always the base configuration's.
C7_SuppliedFieldsReplace ==
    (last.op = "override" /\ last.ret.t = "config") =>
        IF last.override.t = "none" THEN last.ret = last.base
        ELSE /\ last.ret.countries =
                    IF last.override.countries.t /= "none"
                    THEN last.override.countries.items ELSE last.base.countries
             /\ last.ret.analysis_start_date =
                    IF last.override.analysis_start_date.t /= "none"
                    THEN to_datetime(last.override.analysis_start_date)
                    ELSE last.base.analysis_start_date
             /\ last.ret.historical_start_date =
                    IF last.override.historical_start_date.t /= "none"
                    THEN to_datetime(last.override.historical_start_date)
                    ELSE last.base.historical_start_date
             /\ last.ret.forecast_months = last.base.forecast_months
             /\ last.ret.forecast_training_window = last.base.forecast_training_window
             /\ last.ret.forecast_display_limit = last.base.forecast_display_limit

\* C7, amended: a country list that is not empty replaces the whole list, a
\* date text that is not empty replaces that date only; an absent field, an
\* empty list and an empty text keep the base configuration's value, and the
\* three forecast fields are always the base configuration's.
C7_NonEmptyFieldsReplace ==
    (last.op = "override" /\ last.ret.t = "config") =>
        IF last.override.t = "none" THEN last.ret = last.base
        ELSE /\ last.ret.countries =
                    IF Truthy(last.override.countries)
                    THEN last.override.countries.items ELSE last.base.countries
             /\ last.ret.analysis_start_date =
                    IF Truthy(last.override.analysis_start_date)
                    THEN to_datetime(last.override.analysis_start_date)
                    ELSE last.base.analysis_start_date
             /\ last.ret.historical_start_date =
                    IF Truthy(last.override.historical_start_date)
                    THEN to_datetime(last.override.historical_start_date)
                    ELSE last.base.historical_start_date
             /\ last.ret.forecast_months = last.base.forecast_months
             /\ last.ret.forecast_training_window = last.base.forecast_training_window
             /\ last.ret.forecast_display_limit = last.base.forecast_display_limit

\* a request with a country list, an empty analysis date and a historical
\* date, applied to a configuration loaded from a file
C7_MixedRequest ==
    /\ last.op = "override"
    /\ last.ret.t = "config"
    /\ last.override = DataRequest(PyList(Strs(<<"DE">>)), PyStr(""), PyStr("2015-06-01"))
    /\ DEFAULT_CONFIG_PATH \in DOMAIN files
    /\ last.base.countries /= last.ret.countries
    /\ last.base.analysis_start_date = last.ret.analysis_start_date

\* C8: loading a file that lacks one of the three dates, or holds a date
\* that cannot be parsed, fails with a ConfigError; a configuration that is
\* returned has three dates.
C8_ConfigError ==
    last.op = "load_config" =>
        LET cfg_path == IF Truthy(last.config_path) THEN last.config_path.s
                        ELSE DEFAULT_CONFIG_PATH
            dates == {"analysis_start_date", "historical_start_date",
                      "forecast_display_limit"}
        IN /\ last.ret.t = "config" =>
                 \A k \in dates : IsTs(last.ret[k])
           /\ (/\ cfg_path \in DOMAIN files
               /\ files[cfg_path].t = "yaml"
               /\ \E k \in dates :
                     \/ k \notin DOMAIN files[cfg_path].data
                     \/ IsRaise(to_datetime(files[cfg_path].data[k])))
              => last.ret = Raise("ConfigError")

\* C10: resolving a resolved configuration again, by ensure_config or by
\* from_mapping on its fields, gives a configuration equal to it in every
\* field.
C10_Idempotent ==
    last.op \in {"ensure_config", "from_mapping"} =>
        /\ last.ret.t = "config"
        /\ \A k \in ConfigKeys : last.ret[k] = last.config[k]

\* from_mapping applied to the fields of a configuration whose country was a
\* bare text in the file and whose forecast_months was a text
C10_Reresolved ==
    /\ last.op = "from_mapping"
    /\ last.config.countries = <<PyStr("AT")>>
    /\ last.config.forecast_months = 6
    /\ IsTs(last.config.analysis_start_date)

(***************************************************************************)
(* inflation_report/pipeline.py: the report functions, one call at a time  *)
(***************************************************************************)
\* resolved configurations: three country lists, three sets of dates and
\* forecast settings, one of them asking for no forecast month
ReportConfigs ==
    {ReportConfig(Strs(countries), profile.analysis, profile.historical,
                  profile.months, 2, profile.limit) :
       countries \in {<<"AT">>, <<"AT", "DE", "EA20">>, <<"AT", "EA19", "EA20">>},
       profile \in {[analysis |-> Timestamp(2023, 1, 1), historical |-> Timestamp(2002, 1, 1),
                     months |-> 2, limit |-> Timestamp(2030, 12, 31)],
                    [analysis |-> Timestamp(2023, 2, 1), historical |-> Timestamp(2023, 2, 1),
                     months |-> 3, limit |-> Timestamp(2023, 4, 30)],
                    [analysis |-> Timestamp(2023, 1, 1), historical |-> Timestamp(2002, 1, 1),
                     months |-> 0, limit |-> Timestamp(2030, 12, 31)]}}

\* what the statistical source can answer: no library, a failed request, a
\* table with both euro-area codes, with one of them, with no row, with a
\* series twice, without the coicop or the geo column, and a table whose
\* period columns are out of order and hold cells that are no numbers
Remotes ==
    LET columns == <<"coicop", "geo", "2023-02", "2023-13", "2023-01">>
        row(coicop, geo, feb, bad, jan) ==
            [c \in Range(columns) |->
               CASE c = "coicop" -> coicop
                 [] c = "geo" -> geo
                 [] c = "2023-02" -> feb
                 [] c = "2023-13" -> bad
                 [] OTHER -> jan]
    IN {NoLib, FetchError, LiveTable, DuplicateTable, NoCoicopTable,
        DataFrame(LiveColumns, <<>>),
        DataFrame(LiveColumns, <<LiveRow("CP00", "AT", PyInt(110), PyInt(120)),
                                 LiveRow("CP00", "EA19", PyInt(90), PyInt(80))>>),
        DataFrame(LiveColumns, <<LiveRow("CP00", "AT", PyInt(110), PyInt(120)),
                                 LiveRow("CP00", "EA20", PyInt(92), PyInt(81))>>),
        DataFrame(<<"coicop", "2023-01">>,
                  <<[c \in {"coicop", "2023-01"} |-> IF c = "coicop" THEN "CP00" ELSE PyInt(110)]>>),
        DataFrame(columns, <<row("CP00", "AT", PyInt(120), PyInt(999), PyStr(":")),
                             row("CP00", "DE", PyStr("95"), NaN, PyInt(105)),
                             row("FOOD", "AT", NaN, PyInt(5), PyInt(130))>>)}

\* the largest number of rows of an observation table
MaxRows == 3

\* one row of the table process_inflation_data returns
Observation(geo, coicop, date, inflation_rate) ==
    [date |-> date,
     year |-> date.y,
     geo |-> geo,
     country |-> _country_label(geo),
     coicop |-> coicop,
     category |-> PyStr(CATEGORY_NAMES[coicop]),
     inflation_rate |-> inflation_rate]

\* observation tables of up to MaxRows rows in any order: equal rates in
\* different months, two rates for one month, both euro-area codes, a
\* category that is not the all-items index
ObservationTables ==
    LET Jan == Timestamp(2023, 1, 1)
        Feb == Timestamp(2023, 2, 1)
        cells == {Observation("AT", "CP00", Jan, 200),
                  Observation("AT", "CP00", Jan, 100),
                  Observation("AT", "CP00", Feb, 200),
                  Observation("EA20", "CP00", Jan, 200),
                  Observation("EA20", "CP00", Feb, 100),
                  Observation("EA19", "CP00", Jan, 100),
                  Observation("AT", "FOOD", Feb, 300)}
    IN {DataFrame(<<"date", "year", "geo", "country", "coicop", "category", "inflation_rate">>,
                  rows) : rows \in UNION {[1..n -> cells] : n \in 0..MaxRows}}

\* the largest number of months of a series
MaxPeriods == 25

\* Austria's all-items series of 1, 2, 3 and MaxPeriods - 2 .. MaxPeriods
\* months up to 2022-11, without a gap or without the month five months
\* back, in two shapes that agree in the two most recent months only; and
\* a table whose only observation is dated in the middle of a month
SeriesTables ==
    LET newest == MonthIndex(Timestamp(2022, 11, 1))
        value(shape, age) == IF shape = "season" THEN 3 + (age % 3)
                             ELSE IF age < 2 THEN 3 + age ELSE 1
        ages(n, gap) == SelectSeq([k \in 1..n |-> n - k], LAMBDA age : ~(gap /\ age = 5))
        rows(n, gap, shape) ==
            [k \in DOMAIN ages(n, gap) |->
               Observation("AT", "CP00", MonthStart(newest - ages(n, gap)[k]),
                           value(shape, ages(n, gap)[k]))]
    IN {DataFrame(<<"date", "year", "geo", "country", "coicop", "category", "inflation_rate">>,
                  rows(n, gap, shape)) :
          n \in {1, 2, 3, MaxPeriods - 2, MaxPeriods - 1, MaxPeriods},
          gap \in BOOLEAN, shape \in {"season", "step"}}
       \cup {DataFrame(<<"date", "year", "geo", "country", "coicop", "category", "inflation_rate">>,
                       <<Observation("AT", "CP00", Timestamp(2022, 11, 15), 3)>>)}

\* what the statsmodels library does with a series of 24 values or more
HoltWintersFits ==
    {Raise("ValueError"),
     [t |-> "fitted", level |-> 4, trend |-> -1, variance |-> Fraction(1, 4)]}

\* the arguments of a run (a configuration and the source's answer) and the
\* arguments of the analysis functions (a configuration and a table)
ReportInputs ==
    {[op |-> "run_report", config |-> config, df |-> remote] :
       config \in ReportConfigs, remote \in Remotes}
    \cup {[op |-> "observations", config |-> config, df |-> table] :
            config \in {c \in ReportConfigs : Len(c.countries) = 1},
            table \in ObservationTables \cup SeriesTables}

InitReport ==
    /\ DATA_CACHE = <<>>
    /\ files = <<>>
    /\ phase = "stopped"
    /\ next_id = 1
    /\ last \in ReportInputs
    /\ origin = <<>>

\* raw_data = fetch_inflation_data(config)
FetchInflation ==
    /\ last.op = "run_report"
    /\ last' = [op |-> "fetch_inflation_data", config |-> last.config, df |-> last.df,
                ret |-> fetch_inflation_data(last.config, last.df)]
    /\ UNCHANGED <<DATA_CACHE, files, phase, next_id, origin>>

\* df = process_inflation_data(raw_data, config)
ProcessInflation ==
    /\ last.op = "fetch_inflation_data"
    /\ ~IsRaise(last.ret)
    /\ last' = [op |-> "process_inflation_data", config |-> last.config, df |-> last.ret,
                ret |-> process_inflation_data(last.ret, last.config)]
    /\ UNCHANGED <<DATA_CACHE, files, phase, next_id, origin>>

\* the table the analysis functions are given: df of run_report after
\* df.dropna(subset=["date"]), which drops nothing from a processed table
Observations == IF last.op = "process_inflation_data" THEN last.ret ELSE last.df

HasObservations ==
    \/ last.op = "process_inflation_data" /\ ~IsRaise(last.ret)
    \/ last.op \in {"observations", "forecast_inflation", "calculate_statistics",
                    "compare_regions", "identify_trends"}

\* the method that made each region's forecast (lines 84-87), for the
\* regions that got one
ForecastMethods(df, config, fit) ==
    LET rows == SelectSeq(df.rows, LAMBDA r : r.coicop = "CP00")
        geos == {rows[i].geo : i \in DOMAIN rows}
    IN IF IsRaise(forecast_inflation(df, config, fit)) THEN <<>>
       ELSE [geo \in {g \in geos : RegionSeries(rows, g).items /= <<>>} |->
               RegionForecast(RegionSeries(rows, geo).items, config.forecast_months, fit).method]

\* forecast_df = forecast_inflation(df, config)
ForecastInflation ==
    /\ HasObservations
    /\ \E fit \in HoltWintersFits :
          last' = [op |-> "forecast_inflation", config |-> last.config, df |-> Observations,
                   fit |-> fit,
                   results |-> ForecastResults(SelectSeq(Observations.rows,
                                                         LAMBDA r : r.coicop = "CP00"),
                                               last.config, fit),
                   ret |-> forecast_inflation(Observations, last.config, fit),
                   methods |-> ForecastMethods(Observations, last.config, fit)]
    /\ UNCHANGED <<DATA_CACHE, files, phase, next_id, origin>>

\* stats = calculate_statistics(df, config)
CalculateStatistics ==
    /\ HasObservations
    /\ \E pick \in 1..MaxRows :
          last' = [op |-> "calculate_statistics", config |-> last.config, df |-> Observations,
                   ret |-> calculate_statistics(Observations, last.config, pick)]
    /\ UNCHANGED <<DATA_CACHE, files, phase, next_id, origin>>

\* comparison = compare_regions(df)
CompareRegions ==
    /\ HasObservations
    /\ last' = [op |-> "compare_regions", config |-> last.config, df |-> Observations,
                ret |-> compare_regions(Observations)]
    /\ UNCHANGED <<DATA_CACHE, files, phase, next_id, origin>>

\* trends = identify_trends(df)
IdentifyTrends ==
    /\ HasObservations
    /\ last' = [op |-> "identify_trends", config |-> last.config, df |-> Observations,
                ret |-> identify_trends(Observations)]
    /\ UNCHANGED <<DATA_CACHE, files, phase, next_id, origin>>

NextReport ==
    \/ FetchInflation
    \/ ProcessInflation
    \/ ForecastInflation
    \/ CalculateStatistics
    \/ CompareRegions
    \/ IdentifyTrends

SpecReport == InitReport /\ [][NextReport]_vars

\* C11: fetch_inflation_data never propagates a failure: when the library
\* is unavailable, the request fails, the answer lacks the coicop or the geo
\* column, or the answer has no row, it returns the synthetic sample
\* dataset, which is the same table on every call.
C11_FallbackOnFailure ==
    last.op = "fetch_inflation_data" =>
        LET failed ==
                \/ last.df.t \in {"nolib", "error"}
                \/ "coicop" \notin Range(last.df.columns)
                \/ Range(last.df.columns) \cap {"geo", "geo\\TIME_PERIOD"} = {}
                \/ last.df.rows = <<>>
        IN failed => last.ret = _get_sample_data

\* C12: a live fetch returns only rows of a requested category and of a
\* configured region or a euro-area code; when the source has rows of a
\* euro-area code the result holds exactly one such code, and when it has
\* rows of both EA19 and EA20 the result holds EA20 and not EA19.
C12_OneAggregate ==
    (last.op = "fetch_inflation_data" /\ last.df.t = "df" /\ last.ret.t = "df") =>
        LET wanted(rows, geo) == {rows[j][geo] : j \in {i \in DOMAIN rows :
                                                          rows[i]["coicop"] \in COICOP_CATEGORIES}}
            column == IF "geo" \in Range(last.df.columns) THEN "geo" ELSE "geo\\TIME_PERIOD"
            source == wanted(last.df.rows, column) \cap {"EA19", "EA20"}
            result == wanted(last.ret.rows, "geo") \cap {"EA19", "EA20"}
        IN /\ \A j \in DOMAIN last.ret.rows :
                 /\ last.ret.rows[j]["coicop"] \in COICOP_CATEGORIES
                 /\ last.ret.rows[j]["geo"] \in CountryCodes(last.config) \cup {"EA19", "EA20"}
           /\ source /= {} => Cardinality(result) = 1
           /\ source = {"EA19", "EA20"} => result = {"EA20"}

\* C13: process_inflation_data does not fail on a cell that is no number or
\* a period that is no month: its rows are, one for one, the cells of the
\* period columns whose period is a month, whose value is a number and
\* whose date is not before historical_start_date, in ascending date order.
C13_ExactlyTheParsedCells ==
    last.op = "process_inflation_data" =>
        LET periods == {c \in Range(last.df.columns) : Contains(c, "-")}
            month(c) == /\ Len(c) = 7
                        /\ AllDigits(SubSeq(c, 1, 4))
                        /\ SubSeq(c, 5, 5) = "-"
                        /\ SubSeq(c, 6, 7) \in {"01", "02", "03", "04", "05", "06",
                                                "07", "08", "09", "10", "11", "12"}
            date(c) == Timestamp(ParseNat(SubSeq(c, 1, 4)), ParseNat(SubSeq(c, 6, 7)), 1)
            number(cell) == cell.t = "int" \/ (cell.t = "str" /\ AllDigits(cell.s))
            value(cell) == IF cell.t = "int" THEN cell.n ELSE ParseNat(cell.s)
            cells == {jc \in (DOMAIN last.df.rows) \X periods :
                        /\ month(jc[2])
                        /\ number(last.df.rows[jc[1]][jc[2]])
                        /\ DateGE(date(jc[2]), last.config.historical_start_date)}
            key(jc) == <<last.df.rows[jc[1]]["geo"], last.df.rows[jc[1]]["coicop"],
                         date(jc[2]), value(last.df.rows[jc[1]][jc[2]])>>
            out == last.ret.rows
            outkey(i) == <<out[i].geo, out[i].coicop, out[i].date, out[i].inflation_rate>>
        IN /\ last.ret.t = "df"
           /\ Len(out) = Cardinality(cells)
           /\ \A jc \in cells :
                 Cardinality({i \in DOMAIN out : outkey(i) = key(jc)})
                    = Cardinality({kd \in cells : key(kd) = key(jc)})
           /\ \A i \in DOMAIN out : \E jc \in cells : key(jc) = outkey(i)
           /\ \A i \in DOMAIN out : \A k \in DOMAIN out :
                 i < k => Ordinal(out[i].date) <= Ordinal(out[k].date)

\* a table whose later period column comes first and which holds a text, a
\* missing value and a period that is no month has been processed: cells
\* were dropped and more than one row is left
C13_MalformedProcessed ==
    /\ last.op = "process_inflation_data"
    /\ "2023-13" \in Range(last.df.columns)
    /\ last.ret.t = "df"
    /\ Len(last.ret.rows) > 1
    /\ Len(last.ret.rows) < 9
    /\ \E i \in DOMAIN last.ret.rows : \E k \in DOMAIN last.ret.rows :
          Ordinal(last.ret.rows[i].date) < Ordinal(last.ret.rows[k].date)

\* C14: calculate_statistics uses the observations dated on or after
\* analysis_start_date only: the result has an entry exactly for the regions
\* with such an observation (a region without one is absent, and that is no
\* error), and an entry's minimum, maximum, mean and latest value are those
\* of one region's observations in the window, latest being a value at the
\* latest date in the window.
C14_WindowedStatistics ==
    last.op = "calculate_statistics" =>
        LET rows == last.df.rows
            window == {i \in DOMAIN rows :
                         Ordinal(rows[i].date) >= Ordinal(last.config.analysis_start_date)}
            of(geo) == {i \in window : rows[i].geo = geo}
            fits(e, g) ==
                /\ \A i \in g : /\ e.min <= rows[i].inflation_rate
                                /\ rows[i].inflation_rate <= e.max
                                /\ Ordinal(rows[i].date) <= Ordinal(e.latest_date)
                /\ \E i \in g : rows[i].inflation_rate = e.min
                /\ \E i \in g : rows[i].inflation_rate = e.max
                /\ \E i \in g : rows[i].date = e.latest_date /\ rows[i].inflation_rate = e.latest
                /\ e.min * e.mean.den <= e.mean.num
                /\ e.mean.num <= e.max * e.mean.den
        IN /\ DOMAIN last.ret = {rows[i].country : i \in window}
           /\ \A name \in DOMAIN last.ret :
                 \E i \in window : rows[i].country = name /\ fits(last.ret[name], of(rows[i].geo))

\* statistics from 2023-02-01 on over a table in which the euro area has a
\* higher value before the window and Austria has observations before the
\* window only
C14_OutsideWindowIgnored ==
    /\ last.op = "calculate_statistics"
    /\ last.config.analysis_start_date = Timestamp(2023, 2, 1)
    /\ \E i \in DOMAIN last.df.rows : last.df.rows[i].geo = "AT"
    /\ "Österreich" \notin DOMAIN last.ret
    /\ "Eurozone" \in DOMAIN last.ret
    /\ last.ret["Eurozone"].max = 100
    /\ last.ret["Eurozone"].latest_date = Timestamp(2023, 2, 1)
    /\ \E i \in DOMAIN last.df.rows :
          last.df.rows[i].geo = "EA20" /\ last.df.rows[i].inflation_rate = 200

\* C15: identify_trends reports an extreme that occurs more than once at
\* its earliest date, whatever the order of the rows: the highest (lowest)
\* rate of an entry is the largest (smallest) rate of one region and its
\* date is the earliest date at which that region has this rate.
C15_EarliestOfTies ==
    last.op = "identify_trends" =>
        LET rows == last.df.rows
            of(geo) == {i \in DOMAIN rows : rows[i].geo = geo}
            earliest(e, g, rate, date) ==
                /\ \E i \in g : rows[i].inflation_rate = rate /\ rows[i].date = date
                /\ \A i \in g : rows[i].inflation_rate = rate =>
                                   Ordinal(date) <= Ordinal(rows[i].date)
            fits(e, g) ==
                /\ \A i \in g : rows[i].inflation_rate <= e.highest_rate
                /\ \A i \in g : rows[i].inflation_rate >= e.lowest_rate
                /\ earliest(e, g, e.highest_rate, e.highest_date)
                /\ earliest(e, g, e.lowest_rate, e.lowest_date)
        IN \A name \in DOMAIN last.ret :
              \E i \in DOMAIN rows :
                 rows[i].country = name /\ fits(last.ret[name], of(rows[i].geo))

\* the trends of a table whose first row is Austria's later month and whose
\* second row is its earlier month, with equal rates
C15_TieLaterRowFirst ==
    /\ last.op = "identify_trends"
    /\ Len(last.df.rows) >= 2
    /\ last.df.rows[1].geo = "AT" /\ last.df.rows[2].geo = "AT"
    /\ last.df.rows[1].inflation_rate = last.df.rows[2].inflation_rate
    /\ Ordinal(last.df.rows[1].date) > Ordinal(last.df.rows[2].date)
    /\ \A i \in DOMAIN last.df.rows :
          last.df.rows[i].inflation_rate <= last.df.rows[1].inflation_rate
    /\ last.ret["Österreich"].highest_date = last.df.rows[2].date

\* C16: identify_trends works on every observation it is given, without
\* the analysis_start_date filter: each region name of the table has an
\* entry, and the entry's extremes bound all observations of one region,
\* those before the statistics window included.
C16_TrendsOverFullSet ==
    last.op = "identify_trends" =>
        LET rows == last.df.rows
        IN /\ DOMAIN last.ret = {rows[i].country : i \in DOMAIN rows}
           /\ \A name \in DOMAIN last.ret :
                 \E i \in DOMAIN rows :
                    /\ rows[i].country = name
                    /\ \A k \in DOMAIN rows :
                          rows[k].geo = rows[i].geo =>
                             /\ last.ret[name].lowest_rate <= rows[k].inflation_rate
                             /\ rows[k].inflation_rate <= last.ret[name].highest_rate

\* trends with an extreme dated before analysis_start_date, for a region
\* that calculate_statistics leaves out for the same table and configuration
C16_ExtremeBeforeWindow ==
    /\ last.op = "identify_trends"
    /\ \E name \in DOMAIN last.ret :
          /\ Ordinal(last.ret[name].highest_date) < Ordinal(last.config.analysis_start_date)
          /\ name \notin DOMAIN calculate_statistics(last.df, last.config, 1)
    /\ DOMAIN calculate_statistics(last.df, last.config, 1) /= {}

\* C17: compare_regions adds the difference column and the flag column if
\* and only if Österreich and Eurozone are both columns of the pivot; each
\* row's difference is then the Österreich value minus the Eurozone value
\* (missing when one of them is missing) and its flag is true exactly when
\* the difference is greater than zero.
C17_DifferenceColumns ==
    (last.op = "compare_regions" /\ last.ret.t = "pivot") =>
        LET columns == Range(last.ret.columns)
            both == PRIMARY \in columns /\ REFERENCE \in columns
            known(cell) == cell.t = "int"
        IN /\ DIFF_COLUMN \in columns <=> both
           /\ FLAG_COLUMN \in columns <=> both
           /\ both =>
                 \A k \in DOMAIN last.ret.rows :
                    LET row == last.ret.rows[k]
                    IN /\ known(row[DIFF_COLUMN]) <=> (known(row[PRIMARY]) /\ known(row[REFERENCE]))
                       /\ known(row[DIFF_COLUMN]) =>
                             row[DIFF_COLUMN].n = row[PRIMARY].n - row[REFERENCE].n
                       /\ row[FLAG_COLUMN] =
                             PyBool(known(row[DIFF_COLUMN]) /\ row[DIFF_COLUMN].n > 0)

\* a comparison with both regions in which one month has a positive
\* difference and another month has no euro-area value
C17_BothRegions ==
    /\ last.op = "compare_regions"
    /\ last.ret.t = "pivot"
    /\ {PRIMARY, REFERENCE} \subseteq Range(last.ret.columns)
    /\ \E k \in DOMAIN last.ret.rows :
          /\ last.ret.rows[k][DIFF_COLUMN] = PyInt(100)
          /\ last.ret.rows[k][FLAG_COLUMN] = PyBool(TRUE)
    /\ \E k \in DOMAIN last.ret.rows :
          /\ last.ret.rows[k][REFERENCE] = NaN
          /\ last.ret.rows[k][FLAG_COLUMN] = PyBool(FALSE)

\* C18: compare_regions fails with a DuplicateObservationError when the
\* all-items rows hold more than one value for one date and region code,
\* and it does not fail when each date and region code occurs at most once.
C18_DuplicateObservationError ==
    last.op = "compare_regions" =>
        LET df_overall == SelectSeq(last.df.rows, LAMBDA r : r.coicop = "CP00")
            twice == \E i, j \in DOMAIN df_overall :
                        /\ i /= j
                        /\ df_overall[i].date = df_overall[j].date
                        /\ df_overall[i].geo = df_overall[j].geo
        IN /\ twice => last.ret = Raise("DuplicateObservationError")
           /\ ~twice => ~IsRaise(last.ret)

\* C19: every region with an all-items observation gets its forecast from
\* exactly one method: from the seasonal exponential smoothing when its
\* series has at least 24 months with a value and the fit does not raise,
\* from the linear regression when it has fewer or the fit raises.
C19_OneMethodPerRegion ==
    last.op = "forecast_inflation" =>
        LET rows == SelectSeq(last.df.rows, LAMBDA r : r.coicop = "CP00")
            months(geo) == {rows[i].date : i \in {k \in DOMAIN rows : rows[k].geo = geo}}
            seasonal(geo) == Cardinality(months(geo)) >= 24 /\ ~IsRaise(last.fit)
        IN /\ ~IsRaise(last.ret)
           /\ \A i \in DOMAIN rows :
                 /\ rows[i].geo \in DOMAIN last.methods
                 /\ last.methods[rows[i].geo] =
                       IF seasonal(rows[i].geo) THEN "holt_winters" ELSE "linear_regression"

\* C20: a forecast made by the linear regression is the regression over the
\* most recent forecast_training_window months of the region's series, so
\* that older observations have no influence on it.
C20_TrainingWindow ==
    (last.op = "forecast_inflation" /\ ~IsRaise(last.ret)) =>
        LET rows == SelectSeq(last.df.rows, LAMBDA r : r.coicop = "CP00")
            series(geo) == RegionSeries(rows, geo).items
            recent(geo) ==
                SubSeq(series(geo),
                       IF Len(series(geo)) > last.config.forecast_training_window
                       THEN Len(series(geo)) - last.config.forecast_training_window + 1 ELSE 1,
                       Len(series(geo)))
            step(geo, date) == MonthIndex(date) - MonthIndex(series(geo)[Len(series(geo))].date)
        IN \A i \in DOMAIN last.ret.rows :
              last.methods[last.ret.rows[i].geo] = "linear_regression" =>
                 last.ret.rows[i].inflation_rate =
                    _forecast_linear_regression(recent(last.ret.rows[i].geo),
                                                last.config.forecast_months)
                       .values[step(last.ret.rows[i].geo, last.ret.rows[i].date)]

\* C21: before the display limit is applied, every region that is forecast
\* has exactly forecast_months points, dated at the consecutive calendar
\* months that follow the region's last historical month (January of the
\* next year after December), without a gap and without a repeated month.
C21_ConsecutiveMonths ==
    (last.op = "forecast_inflation" /\ ~IsRaise(last.results)) =>
        \* a region's series holds its all-items observations at month starts
        LET history == SelectSeq(last.df.rows, LAMBDA r : r.coicop = "CP00" /\ r.date.d = 1)
            geos == {history[i].geo : i \in DOMAIN history}
            dates(geo) == {history[i].date : i \in {j \in DOMAIN history : history[j].geo = geo}}
            later(a, b) == a.y > b.y \/ (a.y = b.y /\ a.m >= b.m)
            newest(geo) == CHOOSE d \in dates(geo) : \A e \in dates(geo) : later(d, e)
            following(d) == IF d.m = 12 THEN Timestamp(d.y + 1, 1, 1)
                            ELSE Timestamp(d.y, d.m + 1, 1)
            points(geo) == SelectSeq(last.results.items, LAMBDA r : r.geo = geo)
        IN \A geo \in geos :
              /\ Len(points(geo)) = last.config.forecast_months
              /\ \A i \in DOMAIN points(geo) :
                    points(geo)[i].date =
                        following(IF i = 1 THEN newest(geo) ELSE points(geo)[i - 1].date)

\* a forecast that runs from December into January of the next year
C21_AcrossNewYear ==
    /\ last.op = "forecast_inflation"
    /\ ~IsRaise(last.results)
    /\ \E i, j \in DOMAIN last.results.items :
          /\ last.results.items[i].geo = last.results.items[j].geo
          /\ last.results.items[i].date.m = 12
          /\ last.results.items[j].date = Timestamp(last.results.items[i].date.y + 1, 1, 1)

\* C22: every row forecast_inflation returns is dated on or before
\* forecast_display_limit and after the last historical date of its region,
\* and the rows are in ascending order of date.
C22_WithinLimitAscending ==
    (last.op = "forecast_inflation" /\ ~IsRaise(last.ret)) =>
        LET history == SelectSeq(last.df.rows, LAMBDA r : r.coicop = "CP00")
            rows == last.ret.rows
        IN /\ \A i \in DOMAIN rows :
                 /\ Ordinal(rows[i].date) <= Ordinal(last.config.forecast_display_limit)
                 /\ \A j \in DOMAIN history :
                       history[j].geo = rows[i].geo =>
                           Ordinal(history[j].date) < Ordinal(rows[i].date)
           /\ \A i, j \in DOMAIN rows :
                 i < j => Ordinal(rows[i].date) <= Ordinal(rows[j].date)

\* two regions' points were made out of date order and some of them lie
\* beyond the display limit
C22_TruncatedAndSorted ==
    /\ last.op = "forecast_inflation"
    /\ ~IsRaise(last.ret)
    /\ last.ret.rows /= <<>>
    /\ Len(last.ret.rows) < Len(last.results.items)
    /\ \E i, j \in DOMAIN last.ret.rows : last.ret.rows[i].geo /= last.ret.rows[j].geo
    /\ \E i, j \in DOMAIN last.results.items :
          i < j /\ Ordinal(last.results.items[i].date) > Ordinal(last.results.items[j].date)

\* C23: the bounds of every forecast point are symmetric around the point
\* estimate, upper - estimate = estimate - lower >= 0, and the lower bound
\* is the estimate minus the half-width, not clamped at zero.
C23_SymmetricBounds ==
    (last.op = "forecast_inflation" /\ ~IsRaise(last.ret)) =>
        \A i \in DOMAIN last.ret.rows :
           LET point == last.ret.rows[i]
           IN /\ point.lower_bound /= NaN
              /\ point.upper_bound /= NaN
              /\ point.lower_bound.value = point.inflation_rate
              /\ point.upper_bound.value = point.inflation_rate
              /\ point.upper_bound.std = point.lower_bound.std
              /\ point.upper_bound.z = -point.lower_bound.z
              /\ point.upper_bound.z >= 0

\* C24: within one region's forecast the width of the prediction interval,
\* upper - lower, grows with the horizon: whenever the residual standard
\* deviation is positive, the point h + 1 months ahead has a strictly wider
\* interval than the point h months ahead.
C24_WideningIntervals ==
    (last.op = "forecast_inflation" /\ ~IsRaise(last.results)) =>
        LET points == last.results.items
            positive(p) == p.upper_bound /= NaN /\ p.upper_bound.std.of.num > 0
            \* a bound is value + z / 100 * sqrt(of): the width is span / 100 * sqrt(of)
            span(p) == p.upper_bound.z - p.lower_bound.z
            of(p) == p.upper_bound.std.of
            wider(p, q) ==
                CASE of(p) = of(q) -> span(p) > span(q)
                  [] span(p) = span(q) -> of(p).num * of(q).den > of(q).num * of(p).den
                  [] OTHER -> span(p) * span(p) * of(p).num * of(q).den
                                  > span(q) * span(q) * of(q).num * of(p).den
        IN \A i, j \in DOMAIN points :
              (/\ points[i].geo = points[j].geo
               /\ MonthIndex(points[j].date) = MonthIndex(points[i].date) + 1
               /\ positive(points[i])) => wider(points[j], points[i])

\* C25: forecast_inflation does not raise for lack of data: a region
\* without an all-items observation contributes no row, and when no region
\* yields a forecast point (no all-items row at all, no region with a
\* value in its series, or forecast_months asking for no point) the result
\* is the empty table with the forecast columns.
C25_EmptyForLackOfData ==
    last.op = "forecast_inflation" =>
        LET history == SelectSeq(last.df.rows, LAMBDA r : r.coicop = "CP00")
            geos == {history[i].geo : i \in DOMAIN history}
            repeated == \E i, j \in DOMAIN history :
                           /\ i /= j
                           /\ history[i].geo = history[j].geo
                           /\ history[i].date = history[j].date
        IN /\ ~IsRaise(last.ret) =>
                 \A i \in DOMAIN last.ret.rows : last.ret.rows[i].geo \in geos
           /\ (\/ history = <<>>
               \/ \A i \in DOMAIN history : history[i].date.d /= 1
               \/ last.config.forecast_months < 1 /\ ~repeated) =>
                 last.ret = DataFrame(ForecastColumns, <<>>)

\* C26: no failure of the forecast reaches the caller: an exception raised
\* while a region's series is built, in the smoothing fit or in the
\* regression fit is handled, and the only errors forecast_inflation
\* raises are ConfigError and DuplicateObservationError.
C26_OnlyConfigurationErrors ==
    (last.op = "forecast_inflation" /\ IsRaise(last.ret)) =>
        last.ret.exc \in {"ConfigError", "DuplicateObservationError"}

\* C30: calculate_statistics and identify_trends return exactly one entry
\* for every distinct region code among the observations they process,
\* computed from that region's observations only: region codes that share
\* a display name neither replace nor merge into each other's entry.
C30_OneEntryPerRegionCode ==
    last.op \in {"calculate_statistics", "identify_trends"} =>
        LET processed ==
                IF last.op = "identify_trends" THEN last.df.rows
                ELSE SelectSeq(last.df.rows,
                               LAMBDA r : Ordinal(r.date) >= Ordinal(last.config.analysis_start_date))
            geos == {processed[i].geo : i \in DOMAIN processed}
            rates(geo) == {processed[i].inflation_rate :
                             i \in {j \in DOMAIN processed : processed[j].geo = geo}}
            largest(geo) == CHOOSE v \in rates(geo) : \A w \in rates(geo) : w <= v
            smallest(geo) == CHOOSE v \in rates(geo) : \A w \in rates(geo) : w >= v
            own(entry, geo) ==
                IF last.op = "identify_trends"
                THEN entry.highest_rate = largest(geo) /\ entry.lowest_rate = smallest(geo)
                ELSE entry.max = largest(geo) /\ entry.min = smallest(geo)
        IN /\ Cardinality(DOMAIN last.ret) = Cardinality(geos)
           /\ \A geo \in geos : \E name \in DOMAIN last.ret : own(last.ret[name], geo)

(***************************************************************************)
(* Failures of the computation behind the server (claims C27 and C29),     *)
(* checked under Spec                                                       *)
(***************************************************************************)
\* C27: when the computation raises while POST /refresh is served, the
\* client gets an HTTP 500 response that carries the text of the error, not
\* the exception itself, and the server goes on serving: it is still
\* running, which is all the request handlers ask for.
C27_ServiceFailure ==
    last.op = "POST /refresh" =>
        IF last.computed /\ ~last.created
        THEN /\ last.ret.t = "raise"
             /\ last.ret.exc = "HTTPException"
             /\ last.ret.status_code = 500
             /\ \E net \in NetOutcomes :
                   PipelineTable[<<PyNone, last.override, files, net>>].ret
                       = Raise(last.ret.detail)
             /\ phase = "running"
        ELSE last.ret.t = "object"

\* a refresh whose computation raised, on a server that has answered
\* another request from a computation before
C27_RefreshFailed ==
    /\ last.op = "POST /refresh"
    /\ last.computed
    /\ IsRaise(last.ret)
    /\ DATA_CACHE /= <<>>

\* C29: a call of compute_data that raises, at whichever step, leaves the
\* cache exactly as it was, without an entry for its key, so that the next
\* call with the same key computes again.
C29_FailureLeavesCache ==
    [][/\ (last'.op \in Calls /\ IsRaise(last'.ret)) =>
             /\ DATA_CACHE' = DATA_CACHE
             /\ _cache_key(last'.override) \notin DOMAIN DATA_CACHE'
       /\ (/\ last.op \in Calls
           /\ IsRaise(last.ret)
           /\ last'.op \in Calls
           /\ last'.override = last.override) => last'.computed]_vars

\* a call with a request payload has raised after the request for the data
\* went out, while the cache held the entries of other keys
C29_FailedWithEntries ==
    /\ last.op = "compute_data"
    /\ last.override.t = "request"
    /\ IsRaise(last.ret)
    /\ last.fetched
    /\ DATA_CACHE /= <<>>

(***************************************************************************)
(* backend/app.py: compute_data called by several threads at once. The     *)
(* handlers are plain functions, which the framework runs in a pool of     *)
(* threads, and compute_data takes no lock: between the lookup of lines    *)
(* 95-97, the computation of lines 99-148 and the store of line 149 of one *)
(* call, other calls take their steps.                                      *)
(***************************************************************************)
\* the number of calls in progress at a time
MaxCalls == 2

\* the payloads of the calls: none, and a request for other countries
RacingOverrides == {PyNone, DataRequest(PyList(Strs(<<"DE">>)), PyNone, PyNone)}

\* a call: where it is, its override, and what it holds or has returned
Step(pc, override, ret) == [pc |-> pc, override |-> override, ret |-> ret]

InitConcurrent ==
    /\ DATA_CACHE = <<>>
    /\ files \in FileSystems
    /\ phase = "stopped"
    /\ next_id = 1
    /\ last = [c \in 1..MaxCalls |-> Step("idle", PyNone, PyNone)]
    /\ origin = <<>>

\* the object with identity next_id is created by a computation
Created(override, cfg) ==
    [i \in DOMAIN origin \cup {next_id} |->
       IF i = next_id THEN [config_path |-> PyNone, override |-> override, cfg |-> cfg]
       ELSE origin[i]]

\* what the warm-up r leaves behind
WarmedUp(r) ==
    /\ DATA_CACHE' = r.cache
    /\ next_id' = IF r.created THEN next_id + 1 ELSE next_id
    /\ origin' = IF r.created THEN Created(PyNone, r.run.cfg) ELSE origin

\* lifespan, before the yield: no request is served before it is over
StartServing ==
    /\ phase = "stopped"
    /\ \E net \in NetOutcomes :
          WarmedUp(lifespan_startup(DATA_CACHE, files, net, next_id))
    /\ phase' = "running"
    /\ UNCHANGED <<files, last>>

\* a thread of the pool enters compute_data(override=payload)
Enter(c) ==
    /\ phase = "running"
    /\ last[c].pc = "idle"
    /\ \E payload \in RacingOverrides :
          last' = [last EXCEPT ![c] = Step("lookup", payload, PyNone)]
    /\ UNCHANGED <<DATA_CACHE, files, phase, next_id, origin>>

\* lines 95-97: the cached object is returned, or the call goes on
LookupStep(c) ==
    /\ last[c].pc = "lookup"
    /\ last' = [last EXCEPT ![c] =
                  IF CacheHit(DATA_CACHE, _cache_key(last[c].override))
                  THEN Step("done", last[c].override,
                            DATA_CACHE[_cache_key(last[c].override)])
                  ELSE Step("compute", last[c].override, PyNone)]
    /\ UNCHANGED <<DATA_CACHE, files, phase, next_id, origin>>

\* what the computation `run` of call c leaves behind: the exception that
\* ends the call, or the response object the call is about to store
Computed(c, run) ==
    IF IsRaise(run.ret)
    THEN /\ last' = [last EXCEPT ![c] = Step("done", last[c].override, run.ret)]
         /\ UNCHANGED <<next_id, origin>>
    ELSE /\ last' = [last EXCEPT ![c] = Step("store", last[c].override, Object(next_id))]
         /\ next_id' = next_id + 1
         /\ origin' = Created(last[c].override, run.cfg)

\* lines 99-148: the pipeline runs and the response object is created, or
\* an exception ends the call
ComputeStep(c) ==
    /\ last[c].pc = "compute"
    /\ \E net \in NetOutcomes :
          Computed(c, PipelineTable[<<PyNone, last[c].override, files, net>>])
    /\ UNCHANGED <<DATA_CACHE, files, phase>>

\* lines 149-150: DATA_CACHE[cache_key] = data_response; return data_response
StoreStep(c) ==
    /\ last[c].pc = "store"
    /\ DATA_CACHE' = CacheStore(DATA_CACHE, _cache_key(last[c].override), last[c].ret)
    /\ last' = [last EXCEPT ![c] = Step("done", last[c].override, last[c].ret)]
    /\ UNCHANGED <<files, phase, next_id, origin>>

NextConcurrent ==
    \/ StartServing
    \/ \E c \in 1..MaxCalls : Enter(c)
    \/ \E c \in 1..MaxCalls : LookupStep(c)
    \/ \E c \in 1..MaxCalls : ComputeStep(c)
    \/ \E c \in 1..MaxCalls : StoreStep(c)

SpecConcurrent == InitConcurrent /\ [][NextConcurrent]_vars

\* C28: the reuse of the cache holds under concurrent requests: however the
\* lookups, computations and stores of calls with one cache key are
\* interleaved, the pipeline creates at most one response for the key and
\* all the calls return the one same object.
C28_SingleFlight ==
    /\ \A i, j \in DOMAIN origin :
          _cache_key(origin[i].override) = _cache_key(origin[j].override) => i = j
    /\ \A c, d \in 1..MaxCalls :
          (/\ last[c].pc = "done"
           /\ last[d].pc = "done"
           /\ last[c].ret.t = "object"
           /\ last[d].ret.t = "object"
           /\ _cache_key(last[c].override) = _cache_key(last[d].override))
          => last[c].ret = last[d].ret
====
